---- MODULE Spec2Model ----
(***************************************************************************)
(* Model of the tax-filing analysis backend: the JavaScript server         *)
(* (index.js, routes/analyze.js, services/aiService.js,                    *)
(* services/ocrService.js, utils/validateInput.js, utils/safeJson.js,      *)
(* middlewares/errorHandler.js) and the TypeScript server (src/...).       *)
(*                                                                         *)
(* JavaScript values are records [t |-> tag, v |-> payload].  A string is  *)
(* a sequence of tokens; a token is a chunk of characters that is never    *)
(* split: a punctuation mark, a blank, a line break, a fence of three      *)
(* backticks, a JSON literal or a run of other characters.                 *)
(***************************************************************************)
EXTENDS Integers, Sequences, FiniteSets, TLC

-----------------------------------------------------------------------------
(* JavaScript values *)

Undefined == [t |-> "undefined", v |-> 0]
Null == [t |-> "null", v |-> 0]
Bool(b) == [t |-> "boolean", v |-> b]
Num(n) == [t |-> "number", v |-> n]
Str(s) == [t |-> "string", v |-> s]
Arr(s) == [t |-> "array", v |-> s]
\* A BigInt: typeof gives 'bigint' and JSON.stringify throws a TypeError.
BigInt(n) == [t |-> "bigint", v |-> n]
Obj(f) == [t |-> "object", v |-> f]

\* F applied to the value of e: names a value that an expression uses
\* more than once (const x = e; ...).
Let(e, F(_)) == F(e)

\* A string of one token.
S1(w) == Str(<<w>>)

EmptyStr == Str(<<>>)

\* The object with no property.
NoProps == [k \in {} |-> Undefined]

\* typeof x
TypeOf(x) ==
  CASE x.t = "undefined" -> "undefined"
    [] x.t = "boolean" -> "boolean"
    [] x.t = "number" -> "number"
    [] x.t = "string" -> "string"
    [] x.t = "bigint" -> "bigint"
    [] OTHER -> "object"

\* Array.isArray(x)
IsArray(x) == x.t = "array"

\* The truthiness of x: !x is ~Truthy(x).
Truthy(x) ==
  CASE x.t = "undefined" -> FALSE
    [] x.t = "null" -> FALSE
    [] x.t = "boolean" -> x.v
    [] x.t = "number" -> x.v /= 0
    [] x.t = "string" -> Len(x.v) > 0
    [] OTHER -> TRUE

\* x[key] (x.key) for a string key on a value that is neither null nor
\* undefined: an own property of an object, undefined otherwise.
Get(x, key) ==
  IF x.t = "object" /\ key \in DOMAIN x.v THEN x.v[key] ELSE Undefined

\* The object f with property key set to val.
SetProp(f, key, val) ==
  [k \in (DOMAIN f) \cup {key} |-> IF k = key THEN val ELSE f[k]]

\* Object.keys(x).length for an object or array x
KeyCount(x) ==
  CASE x.t = "object" -> Cardinality(DOMAIN x.v)
    [] x.t = "array" -> Len(x.v)
    [] OTHER -> 0

-----------------------------------------------------------------------------
(* Tokens of text *)

QUOTE == "\""
ESCQUOTE == "\\\""
NEWLINE == "\n"
ESCNEWLINE == "\\n"
SPACE == " "
\* The run of three backticks that opens or closes a markdown fence.
FENCE == "<fence>"

IsWs(tok) == tok \in {SPACE, NEWLINE}

NumTokens == {"0", "1", "5"}

TokNum(tok) ==
  CASE tok = "0" -> 0
    [] tok = "1" -> 1
    [] OTHER -> 5

NumTok(n) ==
  CASE n = 0 -> "0"
    [] n = 1 -> "1"
    [] OTHER -> "5"

\* s.substring(i - 1, j) on tokens: the tokens i..j of s.
Slice(s, i, j) == IF j < i THEN <<>> ELSE SubSeq(s, i, j)

RECURSIVE SkipWs(_, _)
\* The first position from i on that holds no blank (Len(s) + 1 if none).
SkipWs(s, i) ==
  IF i <= Len(s) /\ IsWs(s[i]) THEN SkipWs(s, i + 1) ELSE i

RECURSIVE SkipWsBack(_, _)
\* The last position up to j that holds no blank (0 if none).
SkipWsBack(s, j) ==
  IF j >= 1 /\ IsWs(s[j]) THEN SkipWsBack(s, j - 1) ELSE j

\* String.prototype.trim
Trim(s) == Slice(s, SkipWs(s, 1), SkipWsBack(s, Len(s)))

-----------------------------------------------------------------------------
(* JSON.parse and JSON.stringify *)

ParseFail == [ok |-> FALSE, val |-> Undefined, next |-> 0]
ParseOk(val, next) == [ok |-> TRUE, val |-> val, next |-> next]

Unescape(tok) ==
  CASE tok = ESCQUOTE -> QUOTE
    [] tok = ESCNEWLINE -> NEWLINE
    [] OTHER -> tok

RECURSIVE ParseStrBody(_, _, _)
\* The rest of a string literal whose opening quote precedes position i.
ParseStrBody(s, i, acc) ==
  IF i > Len(s) THEN ParseFail
  ELSE IF s[i] = QUOTE THEN ParseOk(Str(acc), i + 1)
  ELSE IF s[i] = NEWLINE THEN ParseFail
  ELSE ParseStrBody(s, i + 1, Append(acc, Unescape(s[i])))

RECURSIVE ParseValue(_, _)
RECURSIVE ParseArrTail(_, _, _)
RECURSIVE ParseObjTail(_, _, _)

\* A JSON value starting at position i (no blank at i).
ParseValue(s, i) ==
  IF i > Len(s) THEN ParseFail
  ELSE IF s[i] = "null" THEN ParseOk(Null, i + 1)
  ELSE IF s[i] = "true" THEN ParseOk(Bool(TRUE), i + 1)
  ELSE IF s[i] = "false" THEN ParseOk(Bool(FALSE), i + 1)
  ELSE IF s[i] \in NumTokens THEN ParseOk(Num(TokNum(s[i])), i + 1)
  ELSE IF s[i] = QUOTE THEN ParseStrBody(s, i + 1, <<>>)
  ELSE IF s[i] = "[" THEN
    LET j == SkipWs(s, i + 1) IN
    IF j <= Len(s) /\ s[j] = "]" THEN ParseOk(Arr(<<>>), j + 1)
    ELSE ParseArrTail(s, j, <<>>)
  ELSE IF s[i] = "{" THEN
    LET j == SkipWs(s, i + 1) IN
    IF j <= Len(s) /\ s[j] = "}" THEN ParseOk(Obj(NoProps), j + 1)
    ELSE ParseObjTail(s, j, NoProps)
  ELSE ParseFail

\* The elements of an array from position i on, acc being those before.
ParseArrTail(s, i, acc) ==
  Let(ParseValue(s, i), LAMBDA r :
    IF ~r.ok THEN ParseFail
    ELSE LET j == SkipWs(s, r.next) IN
         IF j > Len(s) THEN ParseFail
         ELSE IF s[j] = "]" THEN ParseOk(Arr(Append(acc, r.val)), j + 1)
         ELSE IF s[j] = "," THEN ParseArrTail(s, SkipWs(s, j + 1), Append(acc, r.val))
         ELSE ParseFail)

\* The members of an object from position i on, f holding those before.
ParseObjTail(s, i, f) ==
  IF i > Len(s) \/ s[i] /= QUOTE THEN ParseFail
  ELSE Let(ParseStrBody(s, i + 1, <<>>), LAMBDA k :
       IF ~k.ok THEN ParseFail
       ELSE LET c == SkipWs(s, k.next) IN
            IF c > Len(s) \/ s[c] /= ":" THEN ParseFail
            ELSE Let(ParseValue(s, SkipWs(s, c + 1)), LAMBDA r :
                 IF ~r.ok THEN ParseFail
                 ELSE LET j == SkipWs(s, r.next)
                          g == SetProp(f, k.val.v, r.val)
                      IN IF j > Len(s) THEN ParseFail
                         ELSE IF s[j] = "}" THEN ParseOk(Obj(g), j + 1)
                         ELSE IF s[j] = "," THEN ParseObjTail(s, SkipWs(s, j + 1), g)
                         ELSE ParseFail))

\* JSON.parse(s): ok is FALSE where JSON.parse throws a SyntaxError.
JSONparse(s) ==
  Let(ParseValue(s, SkipWs(s, 1)), LAMBDA r :
    IF r.ok /\ SkipWs(s, r.next) > Len(s)
    THEN [ok |-> TRUE, val |-> r.val]
    ELSE [ok |-> FALSE, val |-> Undefined])

Escape(s) ==
  [i \in 1..Len(s) |->
     CASE s[i] = QUOTE -> ESCQUOTE
       [] s[i] = NEWLINE -> ESCNEWLINE
       [] OTHER -> s[i]]

RECURSIVE CanStringify(_)
\* JSON.stringify(x) returns: x holds no BigInt ("TypeError: Do not know
\* how to serialize a BigInt" otherwise).
CanStringify(x) ==
  CASE x.t = "bigint" -> FALSE
    [] x.t = "array" -> \A i \in DOMAIN x.v : CanStringify(x.v[i])
    [] x.t = "object" -> \A k \in DOMAIN x.v : CanStringify(x.v[k])
    [] OTHER -> TRUE

RECURSIVE JSONstringify(_)
RECURSIVE StringifyElems(_, _)
RECURSIVE StringifyProps(_, _, _)

\* JSON.stringify(x) for a value other than undefined.
JSONstringify(x) ==
  CASE x.t = "null" -> <<"null">>
    [] x.t = "boolean" -> IF x.v THEN <<"true">> ELSE <<"false">>
    [] x.t = "number" -> <<NumTok(x.v)>>
    [] x.t = "string" -> <<QUOTE>> \o Escape(x.v) \o <<QUOTE>>
    [] x.t = "array" -> <<"[">> \o StringifyElems(x.v, 1) \o <<"]">>
    [] x.t = "object" ->
         <<"{">>
         \o StringifyProps(x.v, {k \in DOMAIN x.v : x.v[k].t /= "undefined"}, TRUE)
         \o <<"}">>
    [] OTHER -> <<"null">>

\* The elements i.. of an array, separated by commas.
StringifyElems(a, i) ==
  IF i > Len(a) THEN <<>>
  ELSE (IF i > 1 THEN <<",">> ELSE <<>>)
       \o JSONstringify(a[i]) \o StringifyElems(a, i + 1)

\* The members of f named in keys, separated by commas.
StringifyProps(f, keys, first) ==
  IF keys = {} THEN <<>>
  ELSE LET k == CHOOSE q \in keys : TRUE IN
       (IF first THEN <<>> ELSE <<",">>)
       \o <<QUOTE>> \o Escape(k) \o <<QUOTE, ":">> \o JSONstringify(f[k])
       \o StringifyProps(f, keys \ {k}, FALSE)

-----------------------------------------------------------------------------
(* utils/safeJson.js and the fence unwrapping of services/aiService.ts *)

NoMatch == [found |-> FALSE, group |-> <<>>]

RECURSIVE NextFence(_, _)
\* The first position from i on that holds a fence (0 if none).
NextFence(s, i) ==
  IF i > Len(s) THEN 0
  ELSE IF s[i] = FENCE THEN i
  ELSE NextFence(s, i + 1)

\* The group a lazy ([\s\S]*?) captures between greedy \s* after position
\* i and \s* before the fence at position j.
FenceGroup(s, i, j) == Slice(s, SkipWs(s, i + 1), SkipWsBack(s, j - 1))

RECURSIVE MatchJsonFence(_, _)
\* s.match(/<fence>json\s*([\s\S]*?)\s*<fence>/) searched from position
\* from on: the leftmost fence followed by json that a later fence closes.
MatchJsonFence(s, from) ==
  LET i == NextFence(s, from) IN
  IF i = 0 THEN NoMatch
  ELSE IF i + 1 <= Len(s) /\ s[i + 1] = "json"
       THEN LET j == NextFence(s, i + 2) IN
            IF j = 0 THEN NoMatch
            ELSE [found |-> TRUE, group |-> FenceGroup(s, i + 1, j)]
       ELSE MatchJsonFence(s, i + 1)

\* s.match(/<fence>\s*([\s\S]*?)\s*<fence>/): the first two fences.
MatchFence(s) ==
  LET i == NextFence(s, 1) IN
  IF i = 0 THEN NoMatch
  ELSE LET j == NextFence(s, i + 1) IN
       IF j = 0 THEN NoMatch
       ELSE [found |-> TRUE, group |-> FenceGroup(s, i, j)]

\* match(/<fence>json.../) || match(/<fence>.../)
jsonMatch(s) ==
  Let(MatchJsonFence(s, 1), LAMBDA m : IF m.found THEN m ELSE MatchFence(s))

\* safeJsonParse(jsonString): the parsed value, null on any error.
safeJsonParse(jsonString) ==
  IF ~Truthy(jsonString) \/ TypeOf(jsonString) /= "string" THEN Null
  ELSE Let(Trim(jsonString.v), LAMBDA trimmed :
       Let(jsonMatch(trimmed), LAMBDA m :
       Let(IF m.found THEN Trim(m.group) ELSE trimmed, LAMBDA cleanJson :
       Let(JSONparse(cleanJson), LAMBDA r :
         IF r.ok THEN r.val ELSE Null))))

\* The parse block of analyzeWithAzureOpenAI (TS): ok is FALSE where it
\* throws 'Invalid JSON response from OpenAI'.  content is truthy; a
\* content that is no string has no match method, which throws inside
\* the block.
parseContentTS(content) ==
  IF TypeOf(content) /= "string" THEN [ok |-> FALSE, val |-> Undefined]
  ELSE Let(jsonMatch(content.v), LAMBDA m :
       Let(IF m.found THEN m.group ELSE content.v, LAMBDA jsonString :
         JSONparse(Trim(jsonString))))

-----------------------------------------------------------------------------
(* The response validators *)

K(w) == <<w>>

validRiskLevelsJS == {<<"LOW">>, <<"MEDIUM">>, <<"HIGH">>}
validRiskLevelsTS == {<<"LOW">>, <<"MEDIUM">>, <<"HIGH">>, <<"CRITICAL">>}

\* levels.includes(x)
Includes(levels, x) == x.t = "string" /\ x.v \in levels

IssueFieldsAreStrings(issue) ==
  /\ TypeOf(Get(issue, K("id"))) = "string"
  /\ TypeOf(Get(issue, K("title"))) = "string"
  /\ TypeOf(Get(issue, K("short"))) = "string"
  /\ TypeOf(Get(issue, K("long"))) = "string"

\* isValidResponse (JS) without the check of summary
isValidResponseNoSummary(response) ==
  /\ Truthy(response)
  /\ TypeOf(response) = "object"
  /\ Includes(validRiskLevelsJS, Get(response, K("riskLevel")))
  /\ IsArray(Get(response, K("detectedIssues")))
  /\ \A n \in 1..Len(Get(response, K("detectedIssues")).v) :
       LET issue == Get(response, K("detectedIssues")).v[n] IN
       /\ Truthy(issue) /\ TypeOf(issue) = "object"
       /\ IssueFieldsAreStrings(issue)

\* AIService.isValidResponse (JS)
isValidResponseJS(response) ==
  IF ~Truthy(response) \/ TypeOf(response) /= "object" THEN FALSE
  ELSE IF ~Includes(validRiskLevelsJS, Get(response, K("riskLevel"))) THEN FALSE
  ELSE IF TypeOf(Get(response, K("summary"))) /= "string" THEN FALSE
  ELSE IF ~IsArray(Get(response, K("detectedIssues"))) THEN FALSE
  ELSE \A n \in 1..Len(Get(response, K("detectedIssues")).v) :
         LET issue == Get(response, K("detectedIssues")).v[n] IN
         /\ Truthy(issue) /\ TypeOf(issue) = "object"
         /\ IssueFieldsAreStrings(issue)

\* AIService.isValidResponse (TS): the truthiness of the && chain.
isValidResponseTS(response) ==
  /\ Truthy(response)
  /\ TypeOf(response) = "object"
  /\ Includes(validRiskLevelsTS, Get(response, K("riskLevel")))
  /\ TypeOf(Get(response, K("summary"))) = "string"
  /\ IsArray(Get(response, K("detectedIssues")))
  /\ \A n \in 1..Len(Get(response, K("detectedIssues")).v) :
       LET issue == Get(response, K("detectedIssues")).v[n] IN
       Truthy(issue) /\ IssueFieldsAreStrings(issue)

-----------------------------------------------------------------------------
(* The mock result *)

DetectedIssue(id, title, short, long) ==
  Obj((K("id") :> S1(id)) @@ (K("title") :> S1(title))
      @@ (K("short") :> S1(short)) @@ (K("long") :> S1(long)))

AnalysisResponse(riskLevel, summary, detectedIssues) ==
  Obj((K("riskLevel") :> riskLevel) @@ (K("summary") :> summary)
      @@ (K("detectedIssues") :> detectedIssues))

\* mock/mockResult.ts
mockAnalysisResult ==
  AnalysisResponse(
    S1("MEDIUM"),
    S1("Based on the provided information, several potential issues were identified. Please review the detected issues carefully."),
    Arr(<<
      DetectedIssue("i1", "Possible Wrong ITR Form Selected",
        "Capital gains detected but ITR-1 selected. ITR-2 or ITR-3 may be required.",
        "You have indicated capital gains in your responses, but ITR-1 was selected. ITR-1 is only for individuals with income from salary, one house property, other sources (interest, etc.), and agricultural income up to Rs. 5,000. If you have capital gains, you should file ITR-2 (if no business income) or ITR-3 (if you have business income). Filing the wrong form can lead to rejection or reassessment."),
      DetectedIssue("i2", "Missing TDS Information",
        "Form 26AS not uploaded. TDS verification recommended.",
        "Form 26AS contains details of all tax deducted at source (TDS) and tax collected at source (TCS) on your behalf. Without verifying Form 26AS, you may miss claiming TDS credits, leading to overpayment of taxes. Please upload Form 26AS to ensure all TDS is properly accounted for."),
      DetectedIssue("i3", "Potential HRA Mismatch",
        "HRA claimed but rent receipt details incomplete.",
        "House Rent Allowance (HRA) exemption requires proper documentation including rent receipts and landlord PAN (if annual rent exceeds Rs. 1,00,000). The provided information appears incomplete. Ensure you have valid rent receipts and landlord PAN details before claiming HRA exemption."),
      DetectedIssue("i4", "Section 80C Limit Check",
        "Total deductions under Section 80C exceed Rs. 1,50,000 limit.",
        "The maximum deduction allowed under Section 80C is Rs. 1,50,000 per financial year. Your total claimed deductions appear to exceed this limit. Please verify that the sum of all Section 80C deductions (ELSS, PPF, NSC, life insurance premium, principal repayment of home loan, etc.) does not exceed Rs. 1,50,000.")
    >>))

\* getMockResult() of mock/mockResult.js: the fixed result.
getMockResult == mockAnalysisResult

-----------------------------------------------------------------------------
(* services/aiService.js and the AIService of services/aiService.ts *)

\* What a function call ends with: a returned value or a thrown error;
\* sent counts the requests it issued to the external model.
Return(val, sent) == [k |-> "return", v |-> val, sent |-> sent]
Throw(msg, sent) == [k |-> "throw", v |-> S1(msg), sent |-> sent]

\* The external model's behaviour on one request: axios.post rejects
\* (a timeout, a non-2xx status, a transport error) or resolves with a
\* body whose choices[0].message.content is content (undefined when any
\* part of that path is missing).
ModelError(why) == [kind |-> "error", why |-> why, content |-> Undefined]
ModelResponse(content) == [kind |-> "response", why |-> "", content |-> content]

\* The timeout option of the axios.post to the external model, in ms:
\* 8000 in the JS client; the TS client passes none and axios's default,
\* 0, means no timeout.
requestTimeout(lang) == IF lang = "js" THEN 8000 ELSE 0

\* process.env.NAME === 'true' || process.env.NAME === '1'
EnvFlag(val) == val = "true" \/ val = "1"

\* new AIService() (JS) that does not read the deployment name
AIServiceNoDeployment(env) ==
  LET useMock == \/ EnvFlag(env.USE_MOCK_AI)
                 \/ env.AZURE_OPENAI_ENDPOINT = ""
                 \/ env.AZURE_OPENAI_KEY = ""
  IN [useMock |-> useMock,
      config |-> IF useMock THEN "undefined" ELSE "set"]

\* new AIService() (JS): this.config stays undefined in mock mode.
AIServiceJS(env) ==
  LET useMock == \/ EnvFlag(env.USE_MOCK_AI)
                 \/ env.AZURE_OPENAI_ENDPOINT = ""
                 \/ env.AZURE_OPENAI_KEY = ""
                 \/ env.AZURE_OPENAI_DEPLOYMENT_NAME = ""
  IN [useMock |-> useMock,
      config |-> IF ~useMock THEN "set" ELSE "undefined"]

\* new AIService() (TS): this.config is null unless assigned.
AIServiceTS(env) ==
  LET fallbackToMock == EnvFlag(env.FALLBACK_TO_MOCK) IN
  [useMock |-> fallbackToMock,
   config |-> IF /\ env.AZURE_OPENAI_ENDPOINT /= ""
                 /\ env.AZURE_OPENAI_KEY /= ""
                 /\ env.AZURE_OPENAI_DEPLOYMENT_NAME /= ""
                 /\ ~fallbackToMock
              THEN "set" ELSE "null"]

\* isConfigured() (JS): !this.useMock && this.config !== null
isConfiguredJS(svc) == ~svc.useMock /\ svc.config /= "null"

\* isConfigured() (TS): this.config !== null && !this.fallbackToMock
isConfiguredTS(svc) == svc.config /= "null" /\ ~svc.useMock

\* The template around the serialized answers and, when it holds more
\* than blanks, the extracted text (the indentation of
\* JSON.stringify(answers, null, 2) is left out).
PromptText(answers, ocrText) ==
  Str(<<"You are a tax filing expert assistant.", NEWLINE,
        "User's Answers from Question Wizard:", NEWLINE>>
      \o (IF answers.t = "undefined" THEN <<"undefined">> ELSE JSONstringify(answers))
      \o (IF ocrText.t = "string" /\ Len(Trim(ocrText.v)) > 0
          THEN <<NEWLINE, "Extracted Text from Uploaded Documents:", NEWLINE>> \o ocrText.v
          ELSE <<>>)
      \o <<NEWLINE, "Return ONLY valid JSON, no additional text or markdown formatting.">>)

\* The statements of buildPrompt throw: JSON.stringify(answers) does, or
\* ocrText is truthy and has no trim method.
PromptThrows(answers, ocrText) ==
  \/ ~CanStringify(answers)
  \/ Truthy(ocrText) /\ ocrText.t /= "string"

\* buildPrompt (JS) without its try/catch and with a serializer that
\* writes null for what it cannot serialize
buildPromptUnguarded(answers, ocrText) == PromptText(answers, ocrText)

\* buildPrompt(answers, ocrText) (JS): '' when building the prompt throws
buildPrompt(answers, ocrText) ==
  IF PromptThrows(answers, ocrText) THEN EmptyStr ELSE PromptText(answers, ocrText)

\* buildPrompt(answers, ocrText) (TS): no try/catch, the error is thrown
\* to the caller
buildPromptTS(answers, ocrText) ==
  IF PromptThrows(answers, ocrText) THEN Throw("TypeError", 0)
  ELSE Return(PromptText(answers, ocrText), 0)

\* a fallback that puts the extracted text in its summary
analyzeFallbackEchoes(answers, ocrText) ==
  AnalysisResponse(S1("MEDIUM"), ocrText, Get(mockAnalysisResult, K("detectedIssues")))

\* analyzeFallback(answers, ocrText) (JS)
analyzeFallbackJS(answers, ocrText) == getMockResult

\* analyzeFallback(answers, ocrText) (TS)
analyzeFallbackTS(answers, ocrText) == mockAnalysisResult

\* analyzeWithAzureOpenAI(answers, ocrText) (JS); reply is what the
\* external model does with the request, if one is sent.
analyzeWithAzureOpenAIJS(svc, answers, ocrText, reply) ==
  IF svc.config /= "set" THEN Throw("Azure OpenAI not configured", 0)
  ELSE
    LET prompt == buildPrompt(answers, ocrText) IN
    IF ~Truthy(prompt) THEN Return(analyzeFallbackJS(answers, ocrText), 0)
    ELSE IF reply.kind = "error" THEN Return(analyzeFallbackJS(answers, ocrText), 1)
    ELSE IF ~Truthy(reply.content) THEN Return(analyzeFallbackJS(answers, ocrText), 1)
    ELSE Let(safeJsonParse(reply.content), LAMBDA parsedResponse :
         IF ~Truthy(parsedResponse) THEN Return(analyzeFallbackJS(answers, ocrText), 1)
         ELSE IF ~isValidResponseJS(parsedResponse)
              THEN Return(analyzeFallbackJS(answers, ocrText), 1)
              ELSE Return(parsedResponse, 1))

\* analyzeWithAzureOpenAI (TS) that returns what it parsed unvalidated
analyzeWithAzureOpenAIUnvalidated(svc, answers, ocrText, reply) ==
  IF svc.config /= "set" THEN Throw("Azure OpenAI not configured", 0)
  ELSE IF buildPromptTS(answers, ocrText).k = "throw"
  THEN Return(analyzeFallbackTS(answers, ocrText), 0)
  ELSE IF reply.kind = "error" THEN Return(analyzeFallbackTS(answers, ocrText), 1)
  ELSE IF ~Truthy(reply.content) THEN Return(analyzeFallbackTS(answers, ocrText), 1)
  ELSE Let(parseContentTS(reply.content), LAMBDA parsed :
       IF ~parsed.ok THEN Return(analyzeFallbackTS(answers, ocrText), 1)
       ELSE Return(parsed.val, 1))

\* analyzeWithAzureOpenAI(answers, ocrText) (TS)
analyzeWithAzureOpenAITS(svc, answers, ocrText, reply) ==
  IF svc.config /= "set" THEN Throw("Azure OpenAI not configured", 0)
  ELSE IF buildPromptTS(answers, ocrText).k = "throw"
  THEN Return(analyzeFallbackTS(answers, ocrText), 0)
  ELSE IF reply.kind = "error" THEN Return(analyzeFallbackTS(answers, ocrText), 1)
  ELSE IF ~Truthy(reply.content) THEN Return(analyzeFallbackTS(answers, ocrText), 1)
  ELSE Let(parseContentTS(reply.content), LAMBDA parsed :
       IF ~parsed.ok THEN Return(analyzeFallbackTS(answers, ocrText), 1)
       ELSE IF ~isValidResponseTS(parsed.val)
            THEN Return(analyzeFallbackTS(answers, ocrText), 1)
            ELSE Return(parsed.val, 1))

\* analyzeInput (JS) without the configuration gate and the try/catch
analyzeInputUncaught(svc, payload, reply) ==
  analyzeWithAzureOpenAIJS(svc, payload.answers, payload.ocrText, reply)

\* analyzeInput(payload) (JS), payload = {answers, ocrText}
analyzeInput(svc, payload, reply) ==
  LET ocrText == IF Truthy(payload.ocrText) THEN payload.ocrText ELSE EmptyStr IN
  IF isConfiguredJS(svc)
  THEN Let(analyzeWithAzureOpenAIJS(svc, payload.answers, ocrText, reply), LAMBDA r :
       IF r.k = "throw"
       THEN Return(analyzeFallbackJS(payload.answers, ocrText), r.sent)
       ELSE r)
  ELSE Return(analyzeFallbackJS(payload.answers, ocrText), 0)

\* analyze (TS) without the configuration gate and the try/catch
analyzeUncaught(svc, answers, ocrText, reply) ==
  analyzeWithAzureOpenAITS(svc, answers, ocrText, reply)

\* analyze(answers, ocrText) (TS)
analyze(svc, answers, ocrText, reply) ==
  IF isConfiguredTS(svc)
  THEN Let(analyzeWithAzureOpenAITS(svc, answers, ocrText, reply), LAMBDA r :
       IF r.k = "throw"
       THEN Return(analyzeFallbackTS(answers, ocrText), r.sent)
       ELSE r)
  ELSE Return(analyzeFallbackTS(answers, ocrText), 0)

-----------------------------------------------------------------------------
(* Errors and the error handlers *)

\* An Error object: statusCode 0 stands for a missing statusCode.
Error(message, statusCode) == [message |-> message, statusCode |-> statusCode]
NoError == Error(<<>>, 0)

\* createError that leaves the status code out
createErrorNoStatus(message, statusCode) == Error(message, 0)

\* createError(message, statusCode)
createError(message, statusCode) == Error(message, statusCode)

\* A response: the status, the value handed to res.json and the text
\* res.json sends, JSON.stringify of that value.
Response(status, body) ==
  [status |-> status, body |-> body, text |-> JSONstringify(body)]
NoResponse == [status |-> 0, body |-> Undefined, text |-> <<>>]

ErrorBody(message) == Obj(K("error") :> Str(message))

GenericMessage == <<"Something went wrong. Please try again.">>

\* errorHandler(err, req, res, next) of middlewares/errorHandler.js
errorHandlerJS(err) ==
  LET statusCode == IF err.statusCode /= 0 THEN err.statusCode ELSE 500 IN
  Response(statusCode, ErrorBody(GenericMessage))

\* err.stack: the line naming the error, then the frames.
Stack(err) == <<"Error: ">> \o err.message \o <<NEWLINE, "    at <frames>">>

\* errorHandler(err, req, res, next) of utils/errorHandler.ts, under
\* the NODE_ENV of the process
errorHandlerTS(err, nodeEnv) ==
  LET statusCode == IF err.statusCode /= 0 THEN err.statusCode ELSE 500
      message == IF Len(err.message) > 0 THEN err.message
                 ELSE <<"Internal Server Error">>
  IN Response(statusCode,
              IF nodeEnv = "development"
              THEN Obj(K("error") :> Str(message) @@ K("stack") :> Str(Stack(err)))
              ELSE ErrorBody(message))

-----------------------------------------------------------------------------
(* utils/validateInput.js, utils/validation.ts and step 1 of the route *)

IsPlainObject(x) == TypeOf(x) = "object" /\ x.t /= "null" /\ ~IsArray(x)

\* validateAnswers(answers) (JS): {valid, error}
validateAnswersJS(answers) ==
  IF ~Truthy(answers)
  THEN [valid |-> FALSE, error |-> <<"Answers field is required">>]
  ELSE IF IsPlainObject(answers)
  THEN [valid |-> TRUE, error |-> <<>>]
  ELSE IF /\ TypeOf(answers) = "string"
          /\ Let(JSONparse(answers.v), LAMBDA parsed : parsed.ok /\ IsPlainObject(parsed.val))
  THEN [valid |-> TRUE, error |-> <<>>]
  ELSE [valid |-> FALSE, error |-> <<"Answers must be a valid JSON object">>]

\* What stands for the result of a call that threw instead of returning
Thrown(name) == [t |-> "thrown", v |-> <<name>>]

\* parseAnswers (JS) without its try/catch
parseAnswersUncaught(answers) ==
  IF TypeOf(answers) = "string"
  THEN Let(JSONparse(answers.v), LAMBDA parsed :
         IF parsed.ok THEN parsed.val ELSE Thrown("SyntaxError"))
  ELSE IF TypeOf(answers) = "object" /\ answers.t /= "null" THEN answers
  ELSE Null

\* parseAnswers(answers) (JS): null where JSON.parse throws
parseAnswersJS(answers) ==
  IF TypeOf(answers) = "string"
  THEN Let(JSONparse(answers.v), LAMBDA parsed : IF parsed.ok THEN parsed.val ELSE Null)
  ELSE IF TypeOf(answers) = "object" /\ answers.t /= "null" THEN answers
  ELSE Null

\* Step 1 of the JS route up to the validation: the answers taken from
\* the request body.
answersFromBodyJS(body) ==
  IF Truthy(Get(body, K("answers")))
  THEN parseAnswersJS(Get(body, K("answers")))
  ELSE IF Truthy(body) /\ TypeOf(body) = "object" /\ KeyCount(body) > 0
  THEN (IF ~Truthy(Get(body, K("salarySlip"))) /\ ~Truthy(Get(body, K("form26as")))
        THEN parseAnswersJS(body)
        ELSE Null)
  ELSE Null

\* express-validator's notEmpty(): the value, turned into a string as
\* the library does, is not the empty string.
notEmpty(value) ==
  CASE value.t \in {"undefined", "null"} -> FALSE
    [] value.t = "string" -> Len(value.v) > 0
    [] value.t = "array" ->
         /\ Len(value.v) > 0
         /\ value.v[1].t \notin {"undefined", "null"}
         /\ ~(value.v[1].t = "string" /\ Len(value.v[1].v) = 0)
         /\ ~(value.v[1].t = "array" /\ Len(value.v[1].v) = 0)
    [] OTHER -> TRUE

\* The custom validator of validateAnswers (TS)
customAnswers(value) ==
  IF TypeOf(value) = "object" /\ value.t /= "null" THEN TRUE
  ELSE IF TypeOf(value) = "string"
  THEN Let(JSONparse(value.v), LAMBDA parsed :
         parsed.ok /\ TypeOf(parsed.val) = "object" /\ parsed.val.t /= "null")
  ELSE FALSE

\* validateAnswers (TS) run on a body: the messages of the validators
\* that fail, in order (the chain does not bail).
validateAnswersTS(body) ==
  LET value == Get(body, K("answers")) IN
  (IF notEmpty(value) THEN <<>> ELSE <<"Answers field is required">>)
  \o (IF customAnswers(value) THEN <<>> ELSE <<"Answers must be a valid JSON object">>)

\* errors.array().map(err => err.msg).join(', ')
JoinMessages(msgs) ==
  IF Len(msgs) = 0 THEN <<>>
  ELSE IF Len(msgs) = 1 THEN <<msgs[1]>>
  ELSE <<msgs[1], ", ", msgs[2]>>

\* parseAnswers(answers) (TS): ok is FALSE where it throws
\* createError('Invalid JSON format in answers field', 400).
parseAnswersTS(answers) ==
  IF TypeOf(answers) = "string" THEN JSONparse(answers.v)
  ELSE [ok |-> TRUE, val |-> answers]

-----------------------------------------------------------------------------
(* The upload middleware of the route (multer) *)

ALLOWED_MIME_TYPES == {"application/pdf", "image/png", "image/jpeg", "image/jpg"}

MAX_FILE_SIZE == 5 * 1024 * 1024

\* limits.files of the multer configuration
MaxFiles == 2

File(fieldname, mimetype, size) ==
  [fieldname |-> fieldname, mimetype |-> mimetype, size |-> size]

\* fileFilter(req, file, cb): the error handed to cb, NoError to accept.
fileFilter(file) ==
  IF file.mimetype \in ALLOWED_MIME_TYPES THEN NoError
  ELSE Error(<<"Invalid file type. Only PDF, PNG, and JPG files are allowed. Received: ",
               file.mimetype>>, 0)

RECURSIVE uploadError(_, _)
\* The error multer reports for the files from position n on: the first
\* file that the filter rejects, that exceeds limits.files or that is
\* larger than limits.fileSize; NoError when every file is stored.
uploadError(files, n) ==
  IF n > Len(files) THEN NoError
  ELSE IF n > MaxFiles THEN Error(<<"LIMIT_FILE_COUNT">>, 0)
  ELSE IF fileFilter(files[n]) /= NoError THEN fileFilter(files[n])
  ELSE IF files[n].size > MAX_FILE_SIZE THEN Error(<<"LIMIT_FILE_SIZE">>, 0)
  ELSE uploadError(files, n + 1)

\* The callback of upload.fields(...) in the JS route and
\* handleUploadError in the TS one: the 400 response to an upload error.
handleUploadError(err) ==
  IF err.message = <<"LIMIT_FILE_SIZE">>
  THEN Response(400, ErrorBody(<<"File size exceeds the maximum limit of 5MB">>))
  ELSE IF err.message = <<"LIMIT_FILE_COUNT">>
  THEN Response(400, ErrorBody(<<"Too many files. Maximum 2 files allowed.">>))
  ELSE Response(400, ErrorBody(IF Len(err.message) > 0 THEN err.message
                               ELSE <<"File upload error">>))

\* The {buffer, mimetype} entries the handler collects from req.files:
\* salarySlip[0] first, then form26as[0].
RECURSIVE FilesOfField(_, _, _)
FilesOfField(files, fieldname, n) ==
  IF n > Len(files) THEN <<>>
  ELSE IF files[n].fieldname = fieldname THEN <<files[n]>>
  ELSE FilesOfField(files, fieldname, n + 1)

filesToProcess(files) ==
  FilesOfField(files, "salarySlip", 1) \o FilesOfField(files, "form26as", 1)

-----------------------------------------------------------------------------
(* services/ocrService.js and the OCRService of services/ocrService.ts *)

\* new OCRService(): this.config is null unless endpoint and key are set.
OCRService(env) ==
  [config |-> IF /\ env.AZURE_DOCUMENT_INTELLIGENCE_ENDPOINT /= ""
                 /\ env.AZURE_DOCUMENT_INTELLIGENCE_KEY /= ""
              THEN "set" ELSE "null"]

\* isConfigured(): this.config !== null
ocrIsConfigured(svc) == svc.config /= "null"

\* The timeout option of the axios.post that submits a document, in ms:
\* 30000 in the JS client; the TS client passes none (axios: no timeout).
ocrSubmitTimeout(lang) == IF lang = "js" THEN 30000 ELSE 0

\* The timeout option of the axios.get of a poll, in ms: 10000 in the JS
\* client, none in the TS client.
ocrPollTimeout(lang) == IF lang = "js" THEN 10000 ELSE 0

\* The poll budget of extractText
maxAttempts == 10

\* One extractText call in flight: st is where it stands ("submit": the
\* document is posted, "poll": in the poll loop, "done": returned text),
\* attempts the counter of the poll loop while it runs, text what the
\* call returned and log its last console.error or console.warn.
Extraction(st, attempts, text, log) ==
  [st |-> st, attempts |-> attempts, text |-> text, log |-> log]

\* extractText after the provider answered the submit: a rejected post
\* is caught by the outer catch and a response without
\* operation-location returns ''.
extractTextSubmit(r) ==
  CASE r = "accepted" -> Extraction("poll", 0, <<>>, "")
    [] r = "noheader" ->
         Extraction("done", 0, <<>>, "No operation-location header in response")
    [] OTHER -> Extraction("done", 0, <<>>, "OCR extraction error:")

\* a poll loop without the attempt budget
pollLoopNoBudget(attempts, log) == Extraction("poll", attempts, <<>>, log)

\* while (attempts < maxAttempts), tested after attempts++
pollLoop(attempts, log) ==
  IF attempts < maxAttempts THEN Extraction("poll", attempts, <<>>, log)
  ELSE Extraction("done", 0, <<>>, "OCR analysis timed out after maximum attempts")

\* a poll loop that takes status 'failed' for a pending one
extractTextPollOnFailed(lang, x, r) ==
  CASE r.kind = "succeeded" ->
         Extraction("done", 0, IF Truthy(r.content) THEN r.content.v ELSE <<>>, x.log)
    [] r.kind = "error" ->
         IF lang = "js" THEN pollLoop(x.attempts + 1, "Error polling OCR result:")
         ELSE Extraction("done", 0, <<>>, "OCR extraction error:")
    [] OTHER -> pollLoop(x.attempts + 1, x.log)

\* One turn of the poll loop of extractText, x being the call and r the
\* provider's answer to the poll.  A failed poll is caught inside the
\* loop by the JS client, which goes on polling, and by the outer catch
\* of the TS client, which returns ''.
extractTextPoll(lang, x, r) ==
  CASE r.kind = "succeeded" ->
         Extraction("done", 0, IF Truthy(r.content) THEN r.content.v ELSE <<>>, x.log)
    [] r.kind = "failed" -> Extraction("done", 0, <<>>, "Document analysis failed:")
    [] r.kind = "error" ->
         IF lang = "js" THEN pollLoop(x.attempts + 1, "Error polling OCR result:")
         ELSE Extraction("done", 0, <<>>, "OCR extraction error:")
    [] OTHER -> pollLoop(x.attempts + 1, x.log)

\* extractText that posts the document whatever this.config is
extractTextUnguarded(svc) == Extraction("submit", 0, <<>>, "")

\* extractText up to its first await: '' at once when this.config is
\* null, the document posted otherwise.
extractTextStart(svc) ==
  IF ~ocrIsConfigured(svc) THEN Extraction("done", 0, <<>>, "")
  ELSE Extraction("submit", 0, <<>>, "")

\* extractTextFromFiles up to its await: one extractText call per file,
\* none for an empty list.
extractTextFromFilesStart(svc, files) ==
  [n \in 1..Len(files) |-> extractTextStart(svc)]

\* The document boundary of extractTextFromFiles
Separator == <<NEWLINE, NEWLINE, "---", NEWLINE, NEWLINE>>

RECURSIVE JoinTextsUnfiltered(_, _, _)
\* texts.join(separator) without the filter, from n on.
JoinTextsUnfiltered(texts, n, first) ==
  IF n > Len(texts) THEN <<>>
  ELSE (IF first THEN <<>> ELSE Separator)
       \o texts[n] \o JoinTextsUnfiltered(texts, n + 1, FALSE)

RECURSIVE JoinTexts(_, _, _)
\* texts.filter(text => text.length > 0).join(separator), from n on.
JoinTexts(texts, n, first) ==
  IF n > Len(texts) THEN <<>>
  ELSE IF Len(texts[n]) = 0 THEN JoinTexts(texts, n + 1, first)
  ELSE (IF first THEN <<>> ELSE Separator) \o texts[n] \o JoinTexts(texts, n + 1, FALSE)

-----------------------------------------------------------------------------
(* Inputs *)

\* The JSON text of the one-token string w
QS(w) == <<QUOTE, w, QUOTE>>

AnswersText ==
  <<"{">> \o QS("itrForm") \o <<":">> \o QS("ITR-1") \o <<",">>
  \o QS("hasCapitalGains") \o <<":", "true", "}">>

AnswersObject ==
  Obj((K("itrForm") :> S1("ITR-1")) @@ (K("hasCapitalGains") :> Bool(TRUE)))

Field(name, val) == Obj(K(name) :> val)

\* Bodies of multipart requests: every field is a string.
MultipartBodies ==
  { Obj(NoProps),
    Field("answers", Str(AnswersText)),
    Field("answers", Str(<<"{", "not", SPACE, "valid", SPACE, "json">>)),
    Field("answers", Str(<<"[", "1", "]">>)),
    Field("answers", S1("null")),
    Field("answers", S1("0")),
    Field("answers", S1("5")),
    Field("answers", S1("false")),
    Field("answers", Str(QS("hello"))),
    Field("answers", Str(JSONstringify(Str(AnswersText)))),
    Field("answers", EmptyStr),
    Field("itrForm", S1("ITR-1")),
    Field("salarySlip", S1("x")) }

\* Bodies of application/json requests, as express.json() parses them.
JsonBodies ==
  { Obj(NoProps),
    Field("answers", AnswersObject),
    Field("answers", Obj(NoProps)),
    Field("answers", Arr(<<Num(1)>>)),
    Field("answers", Num(5)),
    Field("answers", Bool(TRUE)),
    Field("answers", Null),
    Field("answers", Str(AnswersText)),
    Field("answers", Str(<<"{", "not", SPACE, "valid", SPACE, "json">>)),
    Field("itrForm", S1("ITR-1")),
    Arr(<<Num(1)>>) }

FileSets ==
  { <<>>,
    <<File("salarySlip", "application/pdf", 1024)>>,
    <<File("salarySlip", "image/png", 2048), File("form26as", "application/pdf", MAX_FILE_SIZE)>>,
    <<File("form26as", "image/jpg", 1024)>>,
    <<File("salarySlip", "application/pdf", MAX_FILE_SIZE + 1)>>,
    <<File("salarySlip", "text/plain", 1024)>> }

Request(ctype, body, files) == [ctype |-> ctype, body |-> body, files |-> files]
NoRequest == Request("", Undefined, <<>>)

Requests ==
  {Request("multipart/form-data", b, f) : b \in MultipartBodies, f \in FileSets}
  \cup {Request("application/json", b, <<>>) : b \in JsonBodies}

\* The JSON text of an analysis result
ResultText(riskLevel, summary, issues) ==
  <<"{">> \o QS("riskLevel") \o <<":">> \o QS(riskLevel) \o <<",">>
  \o QS("summary") \o <<":">> \o summary \o <<",">>
  \o QS("detectedIssues") \o <<":">> \o issues \o <<"}">>

IssueText ==
  <<"{">> \o QS("id") \o <<":">> \o QS("a1") \o <<",">>
  \o QS("title") \o <<":">> \o QS("TDS") \o <<",">>
  \o QS("short") \o <<":">> \o QS("s") \o <<",">>
  \o QS("long") \o <<":">> \o QS("l") \o <<",">>
  \o QS("extra") \o <<":", "1", "}">>

LowText == ResultText("LOW", QS("ok"), <<"[", "]">>)
HighText == ResultText("HIGH", QS("review"), <<"[">> \o IssueText \o <<"]">>)

\* What choices[0].message.content of a 2xx reply can be.
Contents ==
  { Str(LowText),
    Str(HighText),
    Str(<<FENCE, "json", NEWLINE>> \o LowText \o <<NEWLINE, FENCE>>),
    Str(<<FENCE, NEWLINE>> \o HighText \o <<NEWLINE, FENCE>>),
    Str(<<"Here", SPACE, FENCE, "json", SPACE>> \o LowText \o <<FENCE, SPACE, "done">>),
    Str(ResultText("LOW", <<QUOTE, "run", SPACE, FENCE, "npm", FENCE, QUOTE>>, <<"[", "]">>)),
    Str(ResultText("MEDIUM", <<QUOTE, "say", ESCQUOTE, "hi", ESCQUOTE, ESCNEWLINE, QUOTE>>,
                   <<"[", "]">>)),
    Str(ResultText("CRITICAL", QS("ok"), <<"[", "]">>)),
    Str(ResultText("LOW", <<"5">>, <<"[", "]">>)),
    Str(ResultText("LOW", QS("ok"), <<"[", "{", "}", "]">>)),
    Str(ResultText("LOW", QS("ok"), <<"[", "null", "]">>)),
    Str(<<"{">> \o QS("riskLevel") \o <<":">> \o QS("LOW") \o <<"}">>),
    Str(<<"{", "oops">>),
    Str(<<FENCE, "json", NEWLINE>> \o LowText),
    S1("null"),
    S1("0"),
    EmptyStr,
    Null,
    Undefined,
    AnalysisResponse(S1("LOW"), S1("ok"), Arr(<<>>)) }

\* What the external model can do with a request.
Replies ==
  {ModelError(why) : why \in {"timeout", "status500", "network"}}
  \cup {ModelResponse(c) : c \in Contents}
NoReply == ModelError("")

\* What the OCR provider can do with a submit: fail, answer without an
\* operation-location header, or answer with one.
SubmitReplies == {"error", "noheader", "accepted"}

\* What the analyzeResult.content of a succeeded poll can be.
OcrContents == {Undefined, EmptyStr, S1("Gross salary 1200000"), S1("TDS 5")}

PollReply(kind, content) == [kind |-> kind, content |-> content]
\* What the OCR provider can do with a poll.
PollReplies ==
  {PollReply(k, Undefined) : k \in {"error", "failed", "running"}}
  \cup {PollReply("succeeded", c) : c \in OcrContents}

EnvValues == {"", "x"}
NodeEnvValues == {"", "development"}
FlagValues == {"", "true", "1", "false"}

-----------------------------------------------------------------------------
(* middlewares/rateLimit.ts *)

\* The length of a window in ms: 15 * 60 * 1000 in the source, scaled
\* down to a few ms.
WINDOW_MS == 2

\* The requests let through per window: 100 in the source, scaled down.
MAX_REQUESTS == 2

\* The number of entries above which a call sweeps the store: 1000 in
\* the source, scaled down.
SWEEP_THRESHOLD == 1

\* How many requests over the limit an address sends within a window
MaxRejected == 1

\* store[ip] = {count, resetTime}
Entry(count, resetTime) == [count |-> count, resetTime |-> resetTime]

\* const store = {}
NoEntries == <<>>

\* const records = []
NoRecords == <<>>

\* a sweep that runs whatever the size of the store is
sweepAlways(st, t) ==
  [k \in {k \in DOMAIN st : ~(st[k].resetTime < t)} |-> st[k]]

\* if (Object.keys(store).length > 1000): delete every entry whose
\* resetTime < now
sweep(st, t) ==
  IF Cardinality(DOMAIN st) > SWEEP_THRESHOLD
  THEN [k \in {k \in DOMAIN st : ~(st[k].resetTime < t)} |-> st[k]]
  ELSE st

\* Math.ceil(ms / 1000) for ms >= 0
CeilSeconds(ms) == (ms + 999) \div 1000

\* The body of the 429 response
TooManyRequests(retryAfter) ==
  Obj((K("error") :> S1("Too many requests. Please try again later."))
      @@ (K("retryAfter") :> Num(retryAfter)))

\* a rateLimit that compares the count with the limit before it counts
\* the request
rateLimitChecksFirst(st, ip, t) ==
  Let(sweep(st, t), LAMBDA swept :
    IF ip \notin DOMAIN swept \/ swept[ip].resetTime < t
    THEN [store |-> [k \in DOMAIN swept \cup {ip} |->
                       IF k = ip THEN Entry(1, t + WINDOW_MS) ELSE swept[k]],
          res |-> NoResponse,
          next |-> TRUE]
    ELSE Let([swept EXCEPT ![ip].count = @ + 1], LAMBDA counted :
         IF swept[ip].count > MAX_REQUESTS
         THEN [store |-> counted,
               res |-> Response(429, TooManyRequests(
                         CeilSeconds(counted[ip].resetTime - t))),
               next |-> FALSE]
         ELSE [store |-> counted, res |-> NoResponse, next |-> TRUE]))

\* rateLimit(req, res, next) for a request of address ip at time t on
\* store st: the store it leaves, the response it sends (NoResponse if
\* none) and whether it calls next().
rateLimit(st, ip, t) ==
  Let(sweep(st, t), LAMBDA swept :
    IF ip \notin DOMAIN swept \/ swept[ip].resetTime < t
    THEN [store |-> [k \in DOMAIN swept \cup {ip} |->
                       IF k = ip THEN Entry(1, t + WINDOW_MS) ELSE swept[k]],
          res |-> NoResponse,
          next |-> TRUE]
    ELSE Let([swept EXCEPT ![ip].count = @ + 1], LAMBDA counted :
         IF counted[ip].count > MAX_REQUESTS
         THEN [store |-> counted,
               res |-> Response(429, TooManyRequests(
                         CeilSeconds(counted[ip].resetTime - t))),
               next |-> FALSE]
         ELSE [store |-> counted, res |-> NoResponse, next |-> TRUE]))

-----------------------------------------------------------------------------
(* The server: one request is processed at a time *)

VARIABLES
  impl,        \* "js": index.js and its modules; "ts": the TypeScript server
  env,         \* process.env at start
  aiService,   \* the AIService singleton
  ocrService,  \* the OCRService singleton
  pc,          \* where the request stands
  req,         \* the request in processing
  err,         \* the error raised for the request, NoError if none
  answers,     \* the handler's answers, once normalized
  ocr,         \* the extractText calls of extractTextFromFiles
  ocrText,     \* the handler's ocrText
  aiSent,      \* requests sent to the external model for this request
  reply,       \* what the external model did with the request
  analysis,    \* how the AI client's analyze call ended
  res,         \* the response sent
  arg,         \* the argument of a function called on its own
  ret,         \* what that function returned
  store,       \* the store of the rate limiter
  now,         \* Date.now()
  records      \* the records array of services/dbService.js

vars == <<impl, env, aiService, ocrService, pc, req, err, answers, ocr,
          ocrText, aiSent, reply, analysis, res, arg, ret, store, now,
          records>>

NoOutcome == [k |-> "none", v |-> Undefined, sent |-> 0]

Environments ==
  [AZURE_OPENAI_ENDPOINT : EnvValues,
   AZURE_OPENAI_KEY : EnvValues,
   AZURE_OPENAI_DEPLOYMENT_NAME : EnvValues,
   USE_MOCK_AI : FlagValues,
   FALLBACK_TO_MOCK : FlagValues,
   AZURE_DOCUMENT_INTELLIGENCE_ENDPOINT : EnvValues,
   AZURE_DOCUMENT_INTELLIGENCE_KEY : EnvValues,
   NODE_ENV : NodeEnvValues]

Init ==
  /\ impl \in {"js", "ts"}
  /\ env \in Environments
  \* each server reads its own flag; the other one is left unset
  /\ IF impl = "js"
     THEN env.FALLBACK_TO_MOCK = "" /\ env.NODE_ENV = ""
     ELSE env.USE_MOCK_AI = ""
  /\ aiService = IF impl = "js" THEN AIServiceJS(env) ELSE AIServiceTS(env)
  /\ ocrService = OCRService(env)
  /\ store = NoEntries
  /\ records = NoRecords
  /\ now = 0
  /\ pc = "idle"
  /\ req = NoRequest
  /\ err = NoError
  /\ answers = Undefined
  /\ ocr = <<>>
  /\ ocrText = EmptyStr
  /\ aiSent = 0
  /\ reply = NoReply
  /\ analysis = NoOutcome
  /\ res = NoResponse
  /\ arg = Undefined
  /\ ret = Undefined

\* The request arrives.
Receive ==
  /\ pc \in {"idle", "done"}
  /\ \E r \in Requests : req' = r
  /\ pc' = "upload"
  /\ err' = NoError
  /\ answers' = Undefined
  /\ ocr' = <<>>
  /\ ocrText' = EmptyStr
  /\ aiSent' = 0
  /\ reply' = NoReply
  /\ analysis' = NoOutcome
  /\ res' = NoResponse
  /\ UNCHANGED <<store, now, arg, ret, impl, records, env, aiService, ocrService>>

\* an upload error callback that answers and still calls next()
UploadGoesOn ==
  /\ pc = "upload"
  /\ \E e \in {IF req.ctype = "multipart/form-data"
                THEN uploadError(req.files, 1) ELSE NoError} :
        /\ err' = e
        /\ res' = IF e /= NoError THEN handleUploadError(e) ELSE res
        /\ pc' = IF impl = "js" THEN "handler" ELSE "validate"
  /\ UNCHANGED <<store, now, arg, ret, impl, records, env, aiService, ocrService, req, answers, ocr, ocrText,
                 aiSent, reply, analysis>>

\* The upload middleware: multer on a multipart request, then the
\* upload error callback.
Upload ==
  /\ pc = "upload"
  /\ \E e \in {IF req.ctype = "multipart/form-data"
                THEN uploadError(req.files, 1) ELSE NoError} :
        IF e /= NoError
        THEN /\ err' = e
             /\ res' = handleUploadError(e)
             /\ pc' = "done"
        ELSE /\ pc' = IF impl = "js" THEN "handler" ELSE "validate"
             /\ UNCHANGED <<err, res>>
  /\ UNCHANGED <<store, now, arg, ret, impl, records, env, aiService, ocrService, req, answers, ocr, ocrText,
                 aiSent, reply, analysis>>

\* aiService.analyzeInput({answers, ocrText}) / aiService.analyze(answers, ocrText)
analyzeCall(a, text, r) ==
  IF impl = "js"
  THEN analyzeInput(aiService, [answers |-> a, ocrText |-> text], r)
  ELSE analyze(aiService, a, text, r)

\* Steps 5 and 6 of the JS handler, and its catch with the error handler.
sendResultJS(outcome) ==
  IF outcome.k = "throw" THEN errorHandlerJS(Error(outcome.v.v, 0))
  ELSE IF ~Truthy(outcome.v) \/ TypeOf(outcome.v) /= "object"
  THEN Response(200, getMockResult)
  ELSE Response(200, outcome.v)

\* Step 3 of the TS controller, and asyncHandler with the error handler.
sendResultTS(outcome) ==
  IF outcome.k = "throw" THEN errorHandlerTS(Error(outcome.v.v, 0), env.NODE_ENV)
  ELSE Response(200, outcome.v)

\* The analyze call has ended with outcome: the response is sent.
Respond(outcome) ==
  /\ pc' = "done"
  /\ aiSent' = outcome.sent
  /\ analysis' = outcome
  /\ err' = IF outcome.k = "throw" THEN Error(outcome.v.v, 0) ELSE NoError
  /\ res' = IF impl = "js" THEN sendResultJS(outcome) ELSE sendResultTS(outcome)

\* a handler that responds without awaiting the AI client
StartAnalysisNoWait(a, text) ==
  \E probe \in {analyzeCall(a, text, NoReply)} : Respond(probe)

\* The handler calls the AI client with answers a and extracted text
\* text: the call either sends its request and waits for the reply, or
\* ends at once.
StartAnalysis(a, text) ==
  \E probe \in {analyzeCall(a, text, NoReply)} :
  IF probe.sent > 0
  THEN /\ pc' = "ai"
       /\ aiSent' = probe.sent
       /\ UNCHANGED <<analysis, err, res>>
  ELSE Respond(probe)

\* a step 2 that calls extractTextFromFiles whatever the files and the
\* configuration are
StartExtractionAlways(a) ==
  \E files \in {filesToProcess(req.files)} :
  /\ ocr' = extractTextFromFilesStart(ocrService, files)
  /\ pc' = "ocr"
  /\ UNCHANGED <<aiSent, analysis, err, res>>

\* Step 2 of the handler: extractTextFromFiles when there are files and
\* OCR is configured, the analysis otherwise.
StartExtraction(a) ==
  \E files \in {filesToProcess(req.files)} :
  IF Len(files) > 0 /\ ocrIsConfigured(ocrService)
  THEN /\ ocr' = extractTextFromFilesStart(ocrService, files)
       /\ pc' = "ocr"
       /\ UNCHANGED <<aiSent, analysis, err, res>>
  ELSE /\ ocr' = <<>>
       /\ StartAnalysis(a, EmptyStr)

\* a handler that goes on after a failed validation
JsHandlerGoesOn ==
  /\ pc = "handler"
  /\ impl = "js"
  /\ \E a \in {answersFromBodyJS(req.body)} :
     \E validation \in {validateAnswersJS(a)} :
        /\ answers' = IF validation.valid THEN a ELSE Undefined
        /\ StartExtraction(a)
  /\ UNCHANGED <<store, now, arg, ret, impl, records, env, aiService, ocrService, req, ocrText, reply>>

\* The main handler of routes/analyze.js up to its first await.
JsHandler ==
  /\ pc = "handler"
  /\ impl = "js"
  /\ \E a \in {answersFromBodyJS(req.body)} :
     \E validation \in {validateAnswersJS(a)} :
        IF ~validation.valid
        THEN /\ err' = createError(validation.error, 400)
             /\ res' = errorHandlerJS(createError(validation.error, 400))
             /\ pc' = "done"
             /\ UNCHANGED <<answers, ocr, aiSent, analysis>>
        ELSE /\ answers' = a
             /\ StartExtraction(a)
  /\ UNCHANGED <<store, now, arg, ret, impl, records, env, aiService, ocrService, req, ocrText, reply>>

\* validateAnswers and checkValidation of the TS route.
TsCheckValidation ==
  /\ pc = "validate"
  /\ impl = "ts"
  /\ \E msgs \in {validateAnswersTS(req.body)} :
     IF Len(msgs) > 0
     THEN /\ err' = createError(JoinMessages(msgs), 400)
          /\ res' = errorHandlerTS(createError(JoinMessages(msgs), 400), env.NODE_ENV)
          /\ pc' = "done"
     ELSE /\ pc' = "handler"
          /\ UNCHANGED <<err, res>>
  /\ UNCHANGED <<store, now, arg, ret, impl, records, env, aiService, ocrService, req, answers, ocr, ocrText,
                 aiSent, reply, analysis>>

\* analyzeTaxFiling of the TS controller up to its first await.
TsHandler ==
  /\ pc = "handler"
  /\ impl = "ts"
  /\ \E given \in {Get(req.body, K("answers"))} :
     \E parsed \in {IF Truthy(given) THEN parseAnswersTS(given)
                    ELSE [ok |-> FALSE, val |-> Undefined]} :
     \E thrown \in {IF ~Truthy(given) THEN Error(<<"Answers field is required">>, 0)
                    ELSE createError(<<"Invalid JSON format in answers field">>, 400)} :
        IF ~parsed.ok
        THEN /\ err' = thrown
             /\ res' = errorHandlerTS(thrown, env.NODE_ENV)
             /\ pc' = "done"
             /\ UNCHANGED <<answers, ocr, aiSent, analysis>>
        ELSE /\ answers' = parsed.val
             /\ StartExtraction(parsed.val)
  /\ UNCHANGED <<store, now, arg, ret, impl, records, env, aiService, ocrService, req, ocrText, reply>>

\* The OCR provider answers the submit of file n.
OcrSubmitReply ==
  /\ pc = "ocr"
  /\ \E n \in DOMAIN ocr, r \in SubmitReplies :
       /\ ocr[n].st = "submit"
       /\ ocr' = [ocr EXCEPT ![n] = extractTextSubmit(r)]
  /\ UNCHANGED <<store, now, arg, ret, impl, records, env, aiService, ocrService, pc, req, err, answers,
                 ocrText, aiSent, reply, analysis, res>>

\* One turn of the poll loop of file n: the wait, the poll and what the
\* loop does with the provider's answer.
OcrPollReply ==
  /\ pc = "ocr"
  /\ \E n \in DOMAIN ocr, r \in PollReplies :
       /\ ocr[n].st = "poll"
       /\ ocr[n].attempts < maxAttempts
       /\ ocr' = [ocr EXCEPT ![n] = extractTextPoll(impl, ocr[n], r)]
  /\ UNCHANGED <<store, now, arg, ret, impl, records, env, aiService, ocrService, pc, req, err, answers,
                 ocrText, aiSent, reply, analysis, res>>

\* extractTextFromFiles that joins as soon as one call has returned
OcrJoinFirst ==
  /\ pc = "ocr"
  /\ \E n \in DOMAIN ocr : ocr[n].st = "done"
  /\ \E joined \in {Str(JoinTexts([n \in DOMAIN ocr |-> ocr[n].text], 1, TRUE))} :
     /\ ocrText' = joined
     /\ StartAnalysis(answers, joined)
  /\ ocr' = <<>>
  /\ UNCHANGED <<store, now, arg, ret, impl, records, env, aiService, ocrService, req, answers, reply>>

\* Every extractText call has returned: extractTextFromFiles joins the
\* texts and the handler goes on with the analysis.
OcrJoin ==
  /\ pc = "ocr"
  /\ \A n \in DOMAIN ocr : ocr[n].st = "done"
  /\ \E joined \in {Str(JoinTexts([n \in DOMAIN ocr |-> ocr[n].text], 1, TRUE))} :
     /\ ocrText' = joined
     /\ StartAnalysis(answers, joined)
  /\ ocr' = <<>>
  /\ UNCHANGED <<store, now, arg, ret, impl, records, env, aiService, ocrService, req, answers, reply>>

\* The external model answers, or the request to it fails or, when it
\* has a timeout, times out: the analyze call ends and the handler
\* responds.  Without a timeout the request stays pending for as long
\* as the model does not answer.
AiReply ==
  /\ pc = "ai"
  /\ \E r \in Replies :
       /\ r = ModelError("timeout") => requestTimeout(impl) > 0
       /\ reply' = r
       /\ \E outcome \in {analyzeCall(answers, ocrText, r)} : Respond(outcome)
  /\ UNCHANGED <<store, now, arg, ret, impl, records, env, aiService, ocrService, req, answers, ocr, ocrText>>

\* The server process is alive: it has neither been closed by a signal
\* nor been ended by a failure.
Running == pc \notin {"closed", "crashed"}

\* The process ends: what it held in memory is gone.
ProcessExit(how) ==
  /\ pc' = how
  /\ req' = NoRequest
  /\ err' = NoError
  /\ answers' = Undefined
  /\ ocr' = <<>>
  /\ ocrText' = EmptyStr
  /\ aiSent' = 0
  /\ reply' = NoReply
  /\ analysis' = NoOutcome
  /\ res' = NoResponse
  /\ store' = NoEntries
  /\ records' = NoRecords
  /\ UNCHANGED <<now, arg, ret, impl, env, aiService, ocrService>>

\* An exception or a promise rejection escapes every route and
\* middleware handler and reaches the process.  index.js listens to
\* 'uncaughtException' and 'unhandledRejection' and only logs; the TS
\* entrypoint registers no listener, so Node ends the process on an
\* uncaught exception, and on an unhandled rejection either ends it or
\* only warns, depending on its version.
EscapedFailure ==
  /\ Running
  /\ \E kind \in {"uncaughtException", "unhandledRejection"} :
       IF impl = "js"
       THEN UNCHANGED vars
       ELSE \/ ProcessExit("crashed")
            \/ kind = "unhandledRejection" /\ UNCHANGED vars

\* SIGTERM or SIGINT.  index.js closes the server and exits once the
\* request in flight has been answered; the TS entrypoint has no signal
\* handler and the signal ends the process at once.
Shutdown ==
  /\ Running
  /\ impl = "js" => pc \in {"idle", "done"}
  /\ ProcessExit("closed")

Next ==
  \/ Receive
  \/ Upload
  \/ JsHandler
  \/ TsCheckValidation
  \/ TsHandler
  \/ OcrSubmitReply
  \/ OcrPollReply
  \/ OcrJoin
  \/ AiReply
  \/ EscapedFailure
  \/ Shutdown

Spec == Init /\ [][Next]_vars

-----------------------------------------------------------------------------
(* The servers with what stands before the route: the TS entrypoint puts
   rateLimit in front of every route, index.js has no rate limiter *)

\* The process environments followed: nothing set, and both providers
\* configured
ServerEnvs ==
  {e \in Environments :
     \/ \A f \in DOMAIN e : e[f] = ""
     \/ \A f \in DOMAIN e :
          e[f] = IF f \in {"USE_MOCK_AI", "FALLBACK_TO_MOCK", "NODE_ENV"} THEN "" ELSE "x"}

\* The address every request comes from
ClientAddress == <<"client">>

InitServer ==
  /\ Init
  /\ env \in ServerEnvs

\* What stands before the route for a request of address ip: rateLimit
\* in the TS server, nothing in the JS one.
beforeRoute(ip) ==
  IF impl = "ts" THEN rateLimit(store, ip, now)
  ELSE [store |-> store, res |-> NoResponse, next |-> TRUE]

\* a server that keeps the extracted text of the request before
ReceiveLimitedKeepsText ==
  /\ pc \in {"idle", "done"}
  /\ (impl = "ts" /\ ClientAddress \in DOMAIN store) =>
       store[ClientAddress].count < MAX_REQUESTS + MaxRejected
  /\ \E r \in Requests, lim \in {beforeRoute(ClientAddress)} :
       /\ req' = r
       /\ store' = lim.store
       /\ res' = lim.res
       /\ pc' = IF lim.next THEN "upload" ELSE "done"
  /\ err' = NoError
  /\ answers' = Undefined
  /\ ocr' = <<>>
  /\ aiSent' = 0
  /\ reply' = NoReply
  /\ analysis' = NoOutcome
  /\ UNCHANGED <<ocrText, now, arg, ret, impl, records, env, aiService, ocrService>>

\* A request arrives: it goes through what stands before the route, and
\* then to the upload middleware, unless it was answered 429.
ReceiveLimited ==
  /\ pc \in {"idle", "done"}
  /\ (impl = "ts" /\ ClientAddress \in DOMAIN store) =>
       store[ClientAddress].count < MAX_REQUESTS + MaxRejected
  /\ \E r \in Requests, lim \in {beforeRoute(ClientAddress)} :
       /\ req' = r
       /\ store' = lim.store
       /\ res' = lim.res
       /\ pc' = IF lim.next THEN "upload" ELSE "done"
  /\ err' = NoError
  /\ answers' = Undefined
  /\ ocr' = <<>>
  /\ ocrText' = EmptyStr
  /\ aiSent' = 0
  /\ reply' = NoReply
  /\ analysis' = NoOutcome
  /\ UNCHANGED <<now, arg, ret, impl, records, env, aiService, ocrService>>

NextServer ==
  \/ ReceiveLimited
  \/ Upload
  \/ JsHandler
  \/ TsCheckValidation
  \/ TsHandler
  \/ OcrSubmitReply
  \/ OcrPollReply
  \/ OcrJoin
  \/ AiReply

SpecServer == InitServer /\ [][NextServer]_vars

\* The handler leaves control point p for one of the points in to.
Proceeds(p, to) == pc = p /\ pc' \in to

\* What the scheduling guarantees: the synchronous parts of the
\* middleware and of the handlers (Upload; TsCheckValidation at
\* "validate"; JsHandler and TsHandler at "handler"; OcrJoin at "ocr"
\* once every extractText call has returned) run to their next await,
\* and an awaited provider call (OcrSubmitReply, OcrPollReply; AiReply
\* at "ai") ends, with a reply, a failure or a timeout, when its
\* request carries a timeout.  A request without timeout ends only if
\* the provider answers or the connection fails, which nothing
\* guarantees.
Fairness ==
  /\ WF_vars(Upload)
  /\ WF_pc(Proceeds("validate", {"handler", "done"}))
  /\ WF_pc(Proceeds("handler", {"ocr", "ai", "done"}))
  /\ WF_pc((\A n \in DOMAIN ocr : ocr[n].st = "done")
             /\ Proceeds("ocr", {"ai", "done"}))
  /\ WF_vars(ocrSubmitTimeout(impl) > 0 /\ OcrSubmitReply)
  /\ WF_vars(ocrPollTimeout(impl) > 0 /\ OcrPollReply)
  /\ WF_pc(requestTimeout(impl) > 0 /\ Proceeds("ai", {"done"}))

SpecLive == InitServer /\ [][NextServer]_vars /\ Fairness

-----------------------------------------------------------------------------
(* extractTextFromFiles called on its own, whatever the configuration *)

InitExtract ==
  /\ impl \in {"js", "ts"}
  /\ env \in Environments
  /\ env.AZURE_OPENAI_ENDPOINT = "" /\ env.AZURE_OPENAI_KEY = ""
  /\ env.AZURE_OPENAI_DEPLOYMENT_NAME = ""
  /\ env.USE_MOCK_AI = "" /\ env.FALLBACK_TO_MOCK = "" /\ env.NODE_ENV = ""
  /\ aiService = IF impl = "js" THEN AIServiceJS(env) ELSE AIServiceTS(env)
  /\ ocrService = OCRService(env)
  /\ store = NoEntries
  /\ records = NoRecords
  /\ now = 0
  /\ pc = "extract"
  /\ req \in {Request("multipart/form-data", Field("answers", Str(AnswersText)), f) :
                f \in FileSets}
  /\ err = NoError
  /\ answers = Undefined
  /\ ocr = <<>>
  /\ ocrText = Undefined
  /\ aiSent = 0
  /\ reply = NoReply
  /\ analysis = NoOutcome
  /\ res = NoResponse
  /\ arg = Undefined
  /\ ret = Undefined

\* extractTextFromFiles(files) is called.
CallExtract ==
  /\ pc = "extract"
  /\ ocr' = extractTextFromFilesStart(ocrService, filesToProcess(req.files))
  /\ pc' = "ocr"
  /\ UNCHANGED <<store, now, arg, ret, impl, records, env, aiService, ocrService, req, err, answers,
                 ocrText, aiSent, reply, analysis, res>>

\* Every extractText call has returned: extractTextFromFiles returns the
\* joined text.
ReturnExtract ==
  /\ pc = "ocr"
  /\ \A n \in DOMAIN ocr : ocr[n].st = "done"
  /\ ocrText' = Str(JoinTexts([n \in DOMAIN ocr |-> ocr[n].text], 1, TRUE))
  /\ pc' = "returned"
  /\ UNCHANGED <<store, now, arg, ret, impl, records, env, aiService, ocrService, req, err, answers, ocr,
                 aiSent, reply, analysis, res>>

\* a change of process.env after which the OCR client is built again
EnvChangeRebuilds ==
  /\ \E endpoint \in EnvValues, key \in EnvValues :
       /\ env' = [env EXCEPT !.AZURE_DOCUMENT_INTELLIGENCE_ENDPOINT = endpoint,
                              !.AZURE_DOCUMENT_INTELLIGENCE_KEY = key]
       /\ env' /= env
  /\ ocrService' = OCRService(env')
  /\ UNCHANGED <<store, now, arg, ret, impl, records, aiService, pc, req, err,
                 answers, ocr, ocrText, aiSent, reply, analysis, res>>

\* process.env is assigned after the services were constructed: the
\* endpoint and the key of the OCR provider get other values.  The
\* service object is left as it is.
EnvChange ==
  /\ \E endpoint \in EnvValues, key \in EnvValues :
       /\ env' = [env EXCEPT !.AZURE_DOCUMENT_INTELLIGENCE_ENDPOINT = endpoint,
                              !.AZURE_DOCUMENT_INTELLIGENCE_KEY = key]
       /\ env' /= env
  /\ UNCHANGED <<store, now, arg, ret, impl, records, aiService, ocrService, pc, req, err,
                 answers, ocr, ocrText, aiSent, reply, analysis, res>>

NextExtract ==
  \/ CallExtract
  \/ OcrSubmitReply
  \/ OcrPollReply
  \/ ReturnExtract
  \/ EnvChange

SpecExtract == InitExtract /\ [][NextExtract]_vars

-----------------------------------------------------------------------------
(* rateLimit called on its own, for requests of several addresses over time *)

\* How many more client addresses there are than the sweep threshold
MaxExtra == 2

\* The client addresses (req.ip), each a key of the store
Addresses == {<<n>> : n \in 1..(SWEEP_THRESHOLD + MaxExtra)}

\* How long the clock runs, in ms
MaxNow == 4

InitRate ==
  /\ impl = "ts"
  /\ env \in {e \in Environments : \A f \in DOMAIN e : e[f] = ""}
  /\ aiService = AIServiceTS(env)
  /\ ocrService = OCRService(env)
  /\ store = NoEntries
  /\ records = NoRecords
  /\ now = 0
  /\ pc = "rateLimit"
  /\ arg = Undefined
  /\ ret = Undefined
  /\ req = NoRequest
  /\ err = NoError
  /\ answers = Undefined
  /\ ocr = <<>>
  /\ ocrText = EmptyStr
  /\ aiSent = 0
  /\ reply = NoReply
  /\ analysis = NoOutcome
  /\ res = NoResponse

\* A request of address ip goes through the middleware.
CallRateLimit ==
  /\ pc = "rateLimit"
  /\ \E ip \in Addresses :
       /\ (ip \in DOMAIN store /\ ~(store[ip].resetTime < now)) =>
            store[ip].count < MAX_REQUESTS + MaxRejected
       /\ arg' = Str(ip)
       /\ \E r \in {rateLimit(store, ip, now)} :
            /\ store' = r.store
            /\ res' = r.res
            /\ ret' = Bool(r.next)
  /\ UNCHANGED <<now, pc, impl, records, env, aiService, ocrService, req, err, answers, ocr,
                 ocrText, aiSent, reply, analysis>>

\* Time passes.
Tick ==
  /\ pc = "rateLimit"
  /\ now < MaxNow
  /\ now' = now + 1
  /\ UNCHANGED <<store, arg, ret, pc, impl, records, env, aiService, ocrService, req, err,
                 answers, ocr, ocrText, aiSent, reply, analysis, res>>

NextRate == CallRateLimit \/ Tick

SpecRate == InitRate /\ [][NextRate]_vars

-----------------------------------------------------------------------------
(* isValidResponse and the decoding of content, called on their own *)

\* An object with the properties that are given (undefined: left out).
Props(riskLevel, summary, detectedIssues, extra) ==
  Let((K("riskLevel") :> riskLevel) @@ (K("summary") :> summary)
      @@ (K("detectedIssues") :> detectedIssues) @@ (K("extra") :> extra),
      LAMBDA f : Obj([k \in {k \in DOMAIN f : f[k].t /= "undefined"} |-> f[k]]))

ShapeLevels ==
  {S1("LOW"), S1("MEDIUM"), S1("HIGH"), S1("CRITICAL"), S1("low"), Num(1),
   Null, Undefined}

ShapeSummaries == {S1("ok"), EmptyStr, Num(5), Null, Undefined}

ShapeIssues ==
  { Arr(<<>>),
    Arr(<<DetectedIssue("a1", "TDS", "s", "l")>>),
    Arr(<<DetectedIssue("a1", "TDS", "s", "l"), Null>>),
    Arr(<<DetectedIssue("a1", "TDS", "s", "l"),
          Obj(DetectedIssue("a2", "HRA", "s", "l").v @@ (K("extra") :> Num(1)))>>),
    Arr(<<Obj((K("id") :> S1("a1")) @@ (K("title") :> S1("TDS"))
              @@ (K("short") :> S1("s")))>>),
    Arr(<<Obj(K("long") :> Num(0) @@ DetectedIssue("a1", "TDS", "s", "l").v)>>),
    Arr(<<S1("a1")>>),
    Arr(<<Num(0)>>),
    Arr(<<Arr(<<>>)>>),
    Obj(NoProps),
    S1("none"),
    Null,
    Undefined }

\* What isValidResponse is called with: primitives, null, arrays and
\* objects, with and without each field of a response.
Shapes ==
  {Undefined, Null, Bool(FALSE), Bool(TRUE), Num(0), Num(7), EmptyStr,
   S1("LOW"), Arr(<<>>), Arr(<<AnalysisResponse(S1("LOW"), S1("ok"), Arr(<<>>))>>)}
  \cup {Props(l, m, i, e) : l \in ShapeLevels, m \in ShapeSummaries,
                            i \in ShapeIssues, e \in {Undefined, Num(1)}}

\* JSON texts a content can hold.
JsonTexts ==
  { LowText,
    HighText,
    <<SPACE>> \o LowText \o <<NEWLINE>>,
    ResultText("MEDIUM", <<QUOTE, "say", ESCQUOTE, "hi", ESCQUOTE, ESCNEWLINE, QUOTE>>,
               <<"[", "]">>),
    ResultText("LOW", <<QUOTE, "run", SPACE, FENCE, "npm", FENCE, QUOTE>>, <<"[", "]">>),
    ResultText("LOW", <<QUOTE, "a", SPACE, FENCE, QUOTE>>, <<"[", "]">>),
    <<"[", "1", ",", "5", "]">>,
    <<"{", "}">>,
    QS("ok"),
    <<"5">>,
    <<"true">>,
    <<"null">> }

\* The text wrapped in a fence, with the language tag or without.
Fenced(tag, text) == <<FENCE>> \o tag \o <<NEWLINE>> \o text \o <<NEWLINE, FENCE>>

\* What the client decodes a content to: safeJsonParse in the JS client
\* (null on any error), the parse block of analyzeWithAzureOpenAI in the
\* TS client (undefined standing for its throw).
decodeContent(lang, text) ==
  IF lang = "js" THEN safeJsonParse(Str(text))
  ELSE Let(parseContentTS(Str(text)), LAMBDA r : IF r.ok THEN r.val ELSE Undefined)

\* Arguments of every type for the JS input utilities
UtilArgs ==
  { Undefined, Null, Bool(FALSE), Bool(TRUE), Num(0), Num(5), BigInt(1),
    EmptyStr, Str(<<SPACE>>), Str(AnswersText), Str(<<"{", "oops">>),
    Str(<<"[", "1", ",", "5", "]">>), Str(<<"null">>), Str(QS("ok")),
    Str(Fenced(<<"json">>, AnswersText)), Str(Fenced(<<>>, <<"{", "oops">>)),
    Str(<<FENCE>>),
    Arr(<<>>), Arr(<<Num(1)>>), Obj(NoProps), AnswersObject }

\* The object validateAnswers returns: {valid: true}, or {valid: false,
\* error}
ValidationObject(r) ==
  IF r.valid THEN Obj(K("valid") :> Bool(TRUE))
  ELSE Obj((K("valid") :> Bool(FALSE)) @@ (K("error") :> Str(r.error)))

\* The variables that configure the AI client
AzureOpenAIVars ==
  {"AZURE_OPENAI_ENDPOINT", "AZURE_OPENAI_KEY", "AZURE_OPENAI_DEPLOYMENT_NAME"}

InitPure ==
  /\ impl \in {"js", "ts"}
  /\ env \in {e \in Environments :
                \/ \A f \in DOMAIN e : e[f] = ""
                \/ \A f \in DOMAIN e : e[f] = IF f \in AzureOpenAIVars THEN "x" ELSE ""}
  /\ aiService = IF impl = "js" THEN AIServiceJS(env) ELSE AIServiceTS(env)
  /\ ocrService = OCRService(env)
  /\ store = NoEntries
  /\ records = NoRecords
  /\ now = 0
  /\ \/ pc = "isValidResponse" /\ arg \in Shapes
     \/ pc = "decode" /\ arg \in {Str(text) : text \in JsonTexts}
     \/ pc = "analyzeFallback" /\ arg = Undefined
     \/ pc = "analyze" /\ arg = Undefined
     \/ pc = "inputUtils" /\ arg \in UtilArgs /\ impl = "js"
  \* the AI client is configured for the calls of analyze only
  /\ (pc = "analyze") <=> (env.AZURE_OPENAI_KEY = "x")
  /\ ret = Undefined
  /\ req = NoRequest
  /\ err = NoError
  /\ answers = Undefined
  /\ ocr = <<>>
  /\ ocrText = EmptyStr
  /\ aiSent = 0
  /\ reply = NoReply
  /\ analysis = NoOutcome
  /\ res = NoResponse

\* isValidResponse(arg) is called and returns.
CallIsValidResponse ==
  /\ pc = "isValidResponse"
  /\ ret' = Bool(IF impl = "js" THEN isValidResponseJS(arg)
                 ELSE isValidResponseTS(arg))
  /\ pc' = "returned"
  /\ UNCHANGED <<store, now, arg, impl, records, env, aiService, ocrService, req, err, answers,
                 ocr, ocrText, aiSent, reply, analysis, res>>

\* The content arg is decoded bare, in a fence tagged json and in a
\* fence without tag.
CallDecode ==
  /\ pc = "decode"
  /\ ret' = Arr(<<decodeContent(impl, arg.v),
                  decodeContent(impl, Fenced(<<"json">>, arg.v)),
                  decodeContent(impl, Fenced(<<>>, arg.v))>>)
  /\ pc' = "decoded"
  /\ UNCHANGED <<store, now, arg, impl, records, env, aiService, ocrService, req, err, answers,
                 ocr, ocrText, aiSent, reply, analysis, res>>

\* How many calls of analyzeFallback in a row are followed.
MaxCalls == 3

\* analyzeFallback(answers, ocrText) is called once more, with any
\* answers and any extracted text; ret holds what the calls returned.
CallAnalyzeFallback ==
  /\ pc = "analyzeFallback"
  /\ ret.t = "array" => Len(ret.v) < MaxCalls
  /\ \E a \in {Undefined, Obj(NoProps), AnswersObject}, text \in OcrContents \ {Undefined} :
       /\ arg' = Arr(<<a, text>>)
       /\ \E result \in {IF impl = "js" THEN analyzeFallbackJS(a, text)
                          ELSE analyzeFallbackTS(a, text)} :
            ret' = Arr(IF ret.t = "array" THEN Append(ret.v, result) ELSE <<result>>)
  /\ UNCHANGED <<store, now, pc, impl, records, env, aiService, ocrService, req, err, answers,
                 ocr, ocrText, aiSent, reply, analysis, res>>

\* Answers that JSON.stringify cannot serialize, and answers it can
UnserializableAnswers ==
  {BigInt(1), Obj(K("income") :> BigInt(1)), Arr(<<Num(1), BigInt(5)>>)}
AnalyzeAnswers == {Undefined, AnswersObject} \cup UnserializableAnswers

\* What the external model does with a request of such a call
AnalyzeReplies == {ModelError("network"), ModelResponse(Str(LowText))}

\* analyzeInput({answers, ocrText}) / analyze(answers, ocrText) of a
\* configured AI client is called with any answers and any text, and
\* ends; reply is what the external model does with the request, if one
\* is sent.
CallAnalyze ==
  /\ pc = "analyze"
  /\ \E a \in AnalyzeAnswers, text \in OcrContents \cup {Num(5)}, r \in AnalyzeReplies :
       /\ arg' = Arr(<<a, text>>)
       /\ reply' = r
       /\ \E outcome \in {analyzeCall(a, text, r)} :
            /\ analysis' = outcome
            /\ aiSent' = outcome.sent
  /\ pc' = "analyzed"
  /\ UNCHANGED <<store, now, ret, impl, records, env, aiService, ocrService, req, err, answers,
                 ocr, ocrText, res>>

\* validateAnswers(arg), parseAnswers(arg) and safeJsonParse(arg) are
\* called and end; ret holds what they returned.
CallInputUtils ==
  /\ pc = "inputUtils"
  /\ ret' = Arr(<<ValidationObject(validateAnswersJS(arg)),
                  parseAnswersJS(arg),
                  safeJsonParse(arg)>>)
  /\ pc' = "utilsReturned"
  /\ UNCHANGED <<store, now, arg, impl, records, env, aiService, ocrService, req, err, answers,
                 ocr, ocrText, aiSent, reply, analysis, res>>

NextPure ==
  \/ CallInputUtils
  \/ CallIsValidResponse
  \/ CallDecode
  \/ CallAnalyzeFallback
  \/ CallAnalyze

SpecPure == InitPure /\ [][NextPure]_vars

-----------------------------------------------------------------------------
(* services/dbService.js, called on its own *)

\* How many records the history takes
MaxRecords == 3

\* new Date().toISOString() at t ms after the epoch, t < 10
toISOString(t) ==
  <<"1970-01-01T00:00:00.00",
    <<"0", "1", "2", "3", "4", "5", "6", "7", "8", "9">>[t + 1], "Z">>

\* The record that saveAnalysis builds
Record(id, riskLevel, createdAt) ==
  Obj((K("id") :> Num(id)) @@ (K("riskLevel") :> riskLevel)
      @@ (K("createdAt") :> Str(createdAt)))

\* a saveAnalysis that numbers the records from 0
saveAnalysisZeroBased(recs, result, t) ==
  IF result.t \in {"null", "undefined"}
  THEN [records |-> recs, ret |-> Thrown("TypeError")]
  ELSE [records |-> Append(recs, Record(Len(recs),
                                        Get(result, K("riskLevel")),
                                        toISOString(t))),
        ret |-> Undefined]

\* saveAnalysis(result) on the array recs at time t: records.push of the
\* new record; reading result.riskLevel of null or undefined throws
\* before anything is pushed.
saveAnalysis(recs, result, t) ==
  IF result.t \in {"null", "undefined"}
  THEN [records |-> recs, ret |-> Thrown("TypeError")]
  ELSE [records |-> Append(recs, Record(Len(recs) + 1,
                                        Get(result, K("riskLevel")),
                                        toISOString(t))),
        ret |-> Undefined]

\* getAllAnalyses(): the array itself
getAllAnalyses(recs) == Arr(recs)

\* What saveAnalysis is called with
SavedResults ==
  {Obj(K("riskLevel") :> S1("LOW")), Obj(K("riskLevel") :> S1("HIGH")),
   Obj(NoProps), Num(5), Null, Undefined}

InitDb ==
  /\ impl = "js"
  /\ env \in {e \in Environments : \A f \in DOMAIN e : e[f] = ""}
  /\ aiService = AIServiceJS(env)
  /\ ocrService = OCRService(env)
  /\ store = NoEntries
  /\ records = NoRecords
  /\ now = 0
  /\ pc = "dbService"
  /\ arg = Undefined
  /\ ret = Undefined
  /\ req = NoRequest
  /\ err = NoError
  /\ answers = Undefined
  /\ ocr = <<>>
  /\ ocrText = EmptyStr
  /\ aiSent = 0
  /\ reply = NoReply
  /\ analysis = NoOutcome
  /\ res = NoResponse

DbCalled == {"dbService", "saveAnalysis", "getAllAnalyses"}

CallSaveAnalysis ==
  /\ pc \in DbCalled
  /\ Len(records) < MaxRecords
  /\ \E result \in SavedResults :
       /\ arg' = result
       /\ \E r \in {saveAnalysis(records, result, now)} :
            /\ records' = r.records
            /\ ret' = r.ret
  /\ pc' = "saveAnalysis"
  /\ UNCHANGED <<store, now, impl, env, aiService, ocrService, req, err, answers,
                 ocr, ocrText, aiSent, reply, analysis, res>>

CallGetAllAnalyses ==
  /\ pc \in DbCalled
  /\ arg' = Undefined
  /\ ret' = getAllAnalyses(records)
  /\ pc' = "getAllAnalyses"
  /\ UNCHANGED <<store, now, records, impl, env, aiService, ocrService, req, err,
                 answers, ocr, ocrText, aiSent, reply, analysis, res>>

\* Time passes between two calls.
DbTick ==
  /\ pc \in DbCalled
  /\ now < MaxNow
  /\ now' = now + 1
  /\ UNCHANGED <<store, records, arg, ret, pc, impl, env, aiService, ocrService,
                 req, err, answers, ocr, ocrText, aiSent, reply, analysis, res>>

NextDb == CallSaveAnalysis \/ CallGetAllAnalyses \/ DbTick

SpecDb == InitDb /\ [][NextDb]_vars

-----------------------------------------------------------------------------
(* The response schema and the provider's replies, as the claims read them *)

\* The risk levels the server's validator accepts.
AcceptedRiskLevels ==
  IF impl = "js" THEN {"LOW", "MEDIUM", "HIGH"}
  ELSE {"LOW", "MEDIUM", "HIGH", "CRITICAL"}

HasString(x, name) == <<name>> \in DOMAIN x.v /\ x.v[<<name>>].t = "string"

\* An issue {id, title, short, long} of strings.
IsIssue(x) ==
  /\ x.t = "object"
  /\ \A name \in {"id", "title", "short", "long"} : HasString(x, name)

\* The response schema: riskLevel in the accepted enum, summary a
\* string, detectedIssues an array of issues.
SatisfiesSchema(x) ==
  /\ x.t = "object"
  /\ HasString(x, "riskLevel")
  /\ \E level \in AcceptedRiskLevels : x.v[<<"riskLevel">>].v = <<level>>
  /\ HasString(x, "summary")
  /\ <<"detectedIssues">> \in DOMAIN x.v
  /\ x.v[<<"detectedIssues">>].t = "array"
  /\ \A n \in DOMAIN x.v[<<"detectedIssues">>].v : IsIssue(x.v[<<"detectedIssues">>].v[n])

\* The Fallback Provider's fixed result.
FallbackResult == IF impl = "js" THEN getMockResult ELSE mockAnalysisResult

\* The analyze call of the AI client has ended.
Analyzed == pc = "done" /\ analysis.k /= "none"

\* The text between the fences of a content that is one fenced block,
\* with or without the json tag; <<>> when the content is no such block.
FencedText(text) ==
  IF Len(text) >= 2 /\ text[1] = FENCE /\ text[Len(text)] = FENCE
  THEN IF Len(text) >= 3 /\ text[2] = "json"
       THEN Trim(Slice(text, 3, Len(text) - 1))
       ELSE Trim(Slice(text, 2, Len(text) - 1))
  ELSE <<>>

\* What a content string decodes to as JSON text, bare or fenced.
Decoded(content) ==
  Let(JSONparse(Trim(content.v)), LAMBDA bare :
    IF bare.ok THEN bare ELSE JSONparse(FencedText(Trim(content.v))))

\* A fence somewhere in the content closes around JSON text.
HoldsFencedJson(content) ==
  Let(jsonMatch(content.v), LAMBDA m : m.found /\ JSONparse(Trim(m.group)).ok)

\* The external model call failed: the request failed, the envelope has
\* no content, the content does not decode as JSON, or what it decodes
\* to violates the schema.
ProviderFailed(r) ==
  \/ r.kind = "error"
  \/ ~Truthy(r.content)
  \/ r.content.t /= "string"
  \/ /\ ~Decoded(r.content).ok
     /\ ~HoldsFencedJson(r.content)
  \/ /\ Decoded(r.content).ok
     /\ ~SatisfiesSchema(Decoded(r.content).val)

\* All of endpoint, key and deployment name are present.
AllPresent ==
  /\ env.AZURE_OPENAI_ENDPOINT /= ""
  /\ env.AZURE_OPENAI_KEY /= ""
  /\ env.AZURE_OPENAI_DEPLOYMENT_NAME /= ""

\* The force-mock override is set.
ForceMock ==
  IF impl = "js" THEN env.USE_MOCK_AI \in {"true", "1"}
  ELSE env.FALLBACK_TO_MOCK \in {"true", "1"}

\* The answers of the request were normalized.
Normalized == answers.t /= "undefined"

-----------------------------------------------------------------------------
(* Claims *)

\* C1: every body sent with HTTP 200, from the AI provider or from the
\* fallback, satisfies the response schema, and the text sent, parsed
\* again, satisfies it too.
C1_OkBodySatisfiesSchema ==
  res.status = 200 =>
    /\ SatisfiesSchema(res.body)
    /\ JSONparse(res.text).ok
    /\ SatisfiesSchema(JSONparse(res.text).val)

\* A 200 whose body came from the provider and holds escaped characters.
C1_Witness ==
  /\ res.status = 200
  /\ res.body /= FallbackResult
  /\ ESCQUOTE \in {res.text[i] : i \in DOMAIN res.text}

\* C2: the analyze operation of the AI client never throws to its
\* caller: it ends with a returned result whatever the answers, the
\* extracted text and the external model's behaviour are.
C2_AnalyzeIsTotal ==
  /\ analysis.k /= "throw"
  /\ Analyzed => analysis.k = "return" /\ SatisfiesSchema(analysis.v)

\* analyze has returned although the request to the model timed out.
C2_Witness ==
  /\ Analyzed
  /\ analysis.k = "return"
  /\ reply = ModelError("timeout")

C4_ValidContentIsReturned ==
  (/\ Analyzed
   /\ aiSent > 0
   /\ reply.kind = "response"
   /\ reply.content.t = "string"
   /\ Decoded(reply.content).ok
   /\ SatisfiesSchema(Decoded(reply.content).val))
  => analysis = Return(Decoded(reply.content).val, aiSent)

\* C5: a request goes to the external model only when endpoint, key
\* and deployment name are all present and the force-mock override is
\* not set; in every other configuration analyze returns the fallback
\* result and no request is sent.
C5_ConfigurationGate ==
  /\ aiSent > 0 => (AllPresent /\ ~ForceMock)
  /\ (Analyzed /\ ~(AllPresent /\ ~ForceMock)) =>
       analysis = Return(FallbackResult, 0)

\* analyze has returned the fallback with everything present but the
\* override set.
C5_Witness ==
  /\ Analyzed
  /\ AllPresent
  /\ ForceMock
  /\ aiSent = 0
  /\ analysis.v = FallbackResult

\* C6: a request whose answers normalize and whose attachments were
\* accepted is answered with HTTP 200 and an analysis result, whatever
\* the OCR provider and the AI provider do.
C6_NormalizedGives200 ==
  (pc = "done" /\ Normalized) =>
    /\ res.status = 200
    /\ SatisfiesSchema(res.body)

\* A 200 after the OCR provider gave no text and the model call failed.
C6_Witness ==
  /\ pc = "done"
  /\ Normalized
  /\ Len(req.files) > 0
  /\ ocrIsConfigured(ocrService)
  /\ ocrText = EmptyStr
  /\ reply = ModelError("status500")
  /\ res.status = 200

-----------------------------------------------------------------------------
(* The requests, as the claims on the answers read them *)

\* The upload layer accepted the request's attachments.
Accepted ==
  req.ctype /= "multipart/form-data" \/ uploadError(req.files, 1) = NoError

\* The request was answered after its attachments were accepted.
Answered == pc = "done" /\ Accepted

\* The answers field of the request body (undefined when omitted).
GivenAnswers == Get(req.body, K("answers"))

\* The request omits answers entirely: its body has no field but the
\* file fields.
AnswersOmitted ==
  /\ req.body.t = "object"
  /\ DOMAIN req.body.v \subseteq {K("salarySlip"), K("form26as")}

\* The answers field is a string that does not parse as JSON.
AnswersUnparseable ==
  /\ GivenAnswers.t = "string"
  /\ Len(GivenAnswers.v) > 0
  /\ ~JSONparse(GivenAnswers.v).ok

\* The answers value after parsing (when it is a string).
ParsedAnswers ==
  IF GivenAnswers.t = "string" THEN JSONparse(GivenAnswers.v).val ELSE GivenAnswers

\* The answers field is given and, after parsing, is not a non-null,
\* non-array object.
AnswersNotAnObject ==
  /\ req.body.t = "object"
  /\ K("answers") \in DOMAIN req.body.v
  /\ GivenAnswers.t = "string" => JSONparse(GivenAnswers.v).ok
  /\ ParsedAnswers.t /= "object"

RequiredMessage == <<"Answers field is required">>
InvalidJsonMessage == <<"Invalid JSON format in answers field">>
NotAnObjectMessage == <<"Answers must be a valid JSON object">>

C8_InvalidJsonAsStated ==
  (Answered /\ AnswersUnparseable) =>
    /\ err.message = InvalidJsonMessage
    /\ res.status = 400
    /\ res.body = ErrorBody(InvalidJsonMessage)

\* C9, as stated: an answers value that after parsing is not a
\* non-null, non-array object fails normalization with the input error
\* 'Answers must be a valid JSON object'.
C9_NotAnObjectAsStated ==
  (Answered /\ AnswersNotAnObject) =>
    /\ ~Normalized
    /\ err.message = NotAnObjectMessage

\* C10, as stated: the answers the handler hands to the AI client is a
\* non-null, non-array object.
C10_AnswersHandedIsObject ==
  (pc = "ai" \/ Analyzed) => answers.t = "object"

\* The request body carries an answers field, whatever its value.
HasAnswersField ==
  req.body.t = "object" /\ K("answers") \in DOMAIN req.body.v

\* C11, as stated: the whole request body is taken as the answers only
\* when the body has no answers field at all, is a non-empty plain
\* object and has neither a salarySlip nor a form26as key; when an
\* answers field exists the answers come from that field.
C11_BodyTakenOnlyWithoutAnswersField ==
  Normalized =>
    /\ answers = req.body =>
         /\ IsPlainObject(req.body)
         /\ KeyCount(req.body) > 0
         /\ DOMAIN req.body.v \cap
              {K("answers"), K("salarySlip"), K("form26as")} = {}
    /\ HasAnswersField => answers \in {GivenAnswers, ParsedAnswers}

\* C12, as stated: every response that is not a 2xx carries a JSON
\* object with an error string and no stack trace, and a response with
\* HTTP 500 carries the generic message 'Something went wrong. Please
\* try again.'.
C12_ErrorBodiesAsStated ==
  (pc = "done" /\ res.status /= 200) =>
    /\ res.body.t = "object"
    /\ HasString(res.body, "error")
    /\ K("stack") \notin DOMAIN res.body.v
    /\ JSONparse(res.text).ok
    /\ res.status = 500 => res.body = ErrorBody(GenericMessage)

\* C13, as stated: no failure in request processing ends the server
\* process, not even an exception or rejection that escapes every
\* handler; only SIGTERM or SIGINT end it.
C13_OnlySignalsEndTheProcess ==
  pc /= "crashed"

\* C14, as stated: an error at the submit step or at any poll step (the
\* client logs each of them) makes the file's contribution the empty
\* string.
C14_EveryErrorGivesEmptyText ==
  \A n \in DOMAIN ocr :
    (/\ ocr[n].st = "done"
     /\ ocr[n].log \in {"No operation-location header in response",
                        "OCR extraction error:",
                        "Error polling OCR result:"})
      => ocr[n].text = <<>>

\* The client polls for file n and acts on the provider's answer.
PollStep(n) ==
  /\ n \in DOMAIN ocr
  /\ ocr[n].st = "poll"
  /\ n \in DOMAIN ocr'
  /\ ocr'[n] /= ocr[n]

\* C15: a poll for a file is sent only while fewer than 10 polls of it
\* have found no terminal status, each such poll counts, and the 10th
\* ends the extraction: with the text of a succeeded status or else
\* with the empty string, the timeout included.
C15_AtMostTenPolls ==
  [][\A n \in 1..MaxFiles :
       PollStep(n) =>
         /\ ocr[n].attempts < maxAttempts
         /\ ocr'[n].st \in {"poll", "done"}
         /\ ocr'[n].st = "poll" => ocr'[n].attempts = ocr[n].attempts + 1
         /\ ocr[n].attempts = maxAttempts - 1 => ocr'[n].st = "done"
         /\ (/\ ocr'[n].st = "done"
             /\ ocr'[n].log = "OCR analysis timed out after maximum attempts")
              => /\ ocr[n].attempts = maxAttempts - 1
                 /\ ocr'[n].text = <<>>]_vars

\* The tenth poll of a file found no terminal status and its extraction
\* has ended with the empty string.
C15_Witness ==
  \E n \in DOMAIN ocr :
    /\ ocr[n].st = "done"
    /\ ocr[n].log = "OCR analysis timed out after maximum attempts"
    /\ ocr[n].text = <<>>

\* The texts the extractions of the request have returned, in the order
\* of the file list, without the empty ones.
NonEmptyTexts ==
  SelectSeq([n \in DOMAIN ocr |-> ocr[n].text], LAMBDA t : t /= <<>>)

\* C16: when extractTextFromFiles returns, the text the handler gets is
\* made of the non-empty results in the order of the file list, with
\* "\n\n---\n\n" between two of them and nothing for an empty result,
\* whichever extraction ended first.
C16_JoinedInInputOrder ==
  [][(pc = "ocr" /\ pc' \in {"ai", "done"}) =>
       ocrText' =
         Str(CASE Len(NonEmptyTexts) = 0 -> <<>>
               [] Len(NonEmptyTexts) = 1 -> NonEmptyTexts[1]
               [] OTHER ->
                    NonEmptyTexts[1]
                    \o <<NEWLINE, NEWLINE, "---", NEWLINE, NEWLINE>>
                    \o NonEmptyTexts[2])]_vars

\* Two files gave text and the handler holds both, the salary slip's
\* first, around the separator.
C16_Witness ==
  /\ pc \in {"ai", "done"}
  /\ Len(req.files) = 2
  /\ ocrText = Str(<<"Gross salary 1200000", NEWLINE, NEWLINE, "---",
                     NEWLINE, NEWLINE, "TDS 5">>)

\* The extraction of file n takes a step: the answer to its submit or
\* to one of its polls.
ExtractionStep(n) ==
  /\ n \in DOMAIN ocr
  /\ n \in DOMAIN ocr'
  /\ ocr'[n] /= ocr[n]

\* C17: the handler gets the combined text only once every extraction
\* of the request has returned; a step of one extraction leaves the
\* other one as it is; and when one of two files returned nothing, the
\* combined text is the text of the other file, unaltered.
C17_JoinAll ==
  [][/\ (pc = "ocr" /\ pc' \in {"ai", "done"}) =>
          /\ \A n \in DOMAIN ocr : ocr[n].st = "done"
          /\ \A n, m \in DOMAIN ocr :
               (n /= m /\ ocr[n].text = <<>>) => ocrText' = Str(ocr[m].text)
     /\ \A n \in 1..MaxFiles :
          ExtractionStep(n) =>
            \A m \in DOMAIN ocr \ {n} : ocr'[m] = ocr[m]]_vars

\* Two files were extracted, exactly one of them gave text, and the
\* handler holds that text.
C17_Witness ==
  /\ pc \in {"ai", "done"}
  /\ Len(filesToProcess(req.files)) = 2
  /\ ocrText = S1("TDS 5")

\* C18: extractTextFromFiles called while the client is not configured,
\* or with an empty file list, sends nothing to the OCR provider (no
\* call of it ever waits for an answer to a submit or a poll) and
\* returns the empty string.
C18_NoRequestWhenUnconfiguredOrEmpty ==
  (/\ pc \in {"ocr", "returned"}
   /\ ~ocrIsConfigured(ocrService) \/ filesToProcess(req.files) = <<>>) =>
    /\ \A n \in DOMAIN ocr : ocr[n] = Extraction("done", 0, <<>>, "")
    /\ pc = "returned" => ocrText = EmptyStr

\* extractTextFromFiles has returned from a call with two files made
\* while the client was not configured.
C18_Witness ==
  /\ pc = "returned"
  /\ ~ocrIsConfigured(ocrService)
  /\ Len(filesToProcess(req.files)) = 2
  /\ Len(ocr) = 2
  /\ ocrText = EmptyStr

\* C19: isValidResponse returns on every input, primitive, null, array
\* or object of any shape, and what it returns is true exactly when the
\* input satisfies the response schema, with or without extra fields.
C19_ValidatorDecidesSchema ==
  pc = "returned" =>
    /\ ret.t = "boolean"
    /\ ret.v <=> SatisfiesSchema(arg)

\* isValidResponse has returned true for a response that carries an
\* extra field and an issue with an extra field.
C19_Witness ==
  /\ pc = "returned"
  /\ ret = Bool(TRUE)
  /\ K("extra") \in DOMAIN arg.v
  /\ Len(arg.v[K("detectedIssues")].v) = 2
  /\ K("extra") \in DOMAIN arg.v[K("detectedIssues")].v[2].v

\* C20, as stated: for every JSON text J, the content J in a fence, with
\* the json tag or without it, decodes to the value J itself decodes to,
\* which is the value of J.
C20_FenceMakesNoDifference ==
  pc = "decoded" =>
    /\ ret.v[1] = JSONparse(arg.v).val
    /\ ret.v[2] = ret.v[1]
    /\ ret.v[3] = ret.v[1]

\* C21: whatever answers and extracted text the calls of the Fallback
\* Provider are given, each of them returns what the first one
\* returned: risk level MEDIUM, the same summary and the four issues
\* i1, i2, i3, i4 in that order.
C21_FallbackIsFixed ==
  (pc = "analyzeFallback" /\ ret.t = "array") =>
    \A n \in DOMAIN ret.v :
      /\ ret.v[n] = ret.v[1]
      /\ Get(ret.v[n], K("riskLevel")) = S1("MEDIUM")
      /\ Get(ret.v[n], K("summary")) = Get(mockAnalysisResult, K("summary"))
      /\ Len(Get(ret.v[n], K("detectedIssues")).v) = 4
      /\ \A i \in 1..4 :
           Get(Get(ret.v[n], K("detectedIssues")).v[i], K("id")).v
             = <<<<"i1">>, <<"i2">>, <<"i3">>, <<"i4">>>>[i]

\* The Fallback Provider has been called as often as the bound allows,
\* the last time with answers and an extracted text.
C21_Witness ==
  /\ pc = "analyzeFallback"
  /\ ret.t = "array"
  /\ Len(ret.v) = MaxCalls
  /\ arg = Arr(<<AnswersObject, S1("TDS 5")>>)

\* C22: the OCR client and the AI client are only ever at work for a
\* request whose answers were normalized, and a request whose
\* normalization failed has ended with HTTP 400, no extraction started,
\* no request sent to the external model and no analyze call made,
\* attachments or not.
C22_NormalizationFailsFast ==
  /\ (pc \in {"ocr", "ai"} \/ ocr /= <<>> \/ aiSent > 0 \/ analysis.k /= "none")
       => Normalized
  /\ (Answered /\ ~Normalized) =>
       /\ res.status = 400
       /\ err.statusCode = 400
       /\ ocr = <<>> /\ ocrText = EmptyStr
       /\ aiSent = 0 /\ analysis = NoOutcome

\* The JS server, with OCR and the external model configured, has
\* answered 400 to a request with two accepted attachments whose
\* answers failed normalization.
C22_Witness ==
  /\ Answered
  /\ ~Normalized
  /\ impl = "js"
  /\ Len(filesToProcess(req.files)) = 2
  /\ ocrIsConfigured(ocrService)
  /\ isConfiguredJS(aiService)
  /\ res.status = 400

\* What extractText logs when it gives up on a document.
FailureLogs ==
  {"No operation-location header in response", "OCR extraction error:",
   "Document analysis failed:", "OCR analysis timed out after maximum attempts"}

\* C23: extractTextFromFiles is at work only for a request with at least
\* one attachment and a configured OCR client; when it is skipped the
\* handler's text is empty; when it returns, the handler's text is the
\* text it returned, the empty string when every extraction failed; and
\* in each case the analyze call is made with the normalized answers
\* and that text, and the request is answered with its outcome.
C23_AnalysisRunsWhateverExtractionGave ==
  /\ [](/\ pc = "ocr" =>
             /\ Len(filesToProcess(req.files)) > 0
             /\ ocrIsConfigured(ocrService)
        /\ (/\ pc \in {"ai", "done"}
            /\ Normalized
            /\ Len(filesToProcess(req.files)) = 0 \/ ~ocrIsConfigured(ocrService))
             => ocrText = EmptyStr
        /\ (pc = "ai" /\ Normalized) => aiSent = 1
        /\ (pc = "done" /\ Normalized) =>
             /\ analysis.k /= "none"
             /\ analysis = analyzeCall(answers, ocrText, reply))
  /\ [][(pc = "ocr" /\ pc' \in {"ai", "done"}) =>
          /\ (\A n \in DOMAIN ocr : ocr[n].log \in FailureLogs) => ocrText' = EmptyStr
          /\ \A n \in DOMAIN ocr : ocr[n].log \in FailureLogs => ocr[n].text = <<>>
          /\ (Len(ocr) = 1 /\ ocr[1].log \notin FailureLogs) => ocrText' = Str(ocr[1].text)
          /\ pc' = "done" => analysis' = analyzeCall(answers, ocrText', NoReply)]_vars

\* A request with an attachment was answered 200 by a server whose OCR
\* client is configured, after an extraction that returned nothing and
\* an analyze call made with the empty text.
C23_Witness ==
  /\ pc = "done"
  /\ Normalized
  /\ Len(filesToProcess(req.files)) = 1
  /\ ocrIsConfigured(ocrService)
  /\ ocrText = EmptyStr
  /\ res.status = 200
  /\ analysis = analyzeCall(answers, EmptyStr, reply)

\* C24: a request that reached the handler goes through Normalize,
\* Extract (when there is something to extract), Analyze and Respond in
\* that order.  The AI client is called once, with normalized answers
\* and after every extraction has returned; the response is sent once,
\* after the AI client returned, and a request sent to the external
\* model has been answered by then; the request ends with 200 and the
\* outcome of the analysis, or with 400 sent from Normalize before any
\* extraction or analysis.
C24_FixedOrder ==
  /\ [](Answered =>
          \/ /\ res.status = 200
             /\ Normalized
             /\ analysis.k = "return"
             /\ aiSent \in {0, 1}
          \/ /\ res.status = 400
             /\ ~Normalized
             /\ analysis = NoOutcome
             /\ aiSent = 0
             /\ ocr = <<>>)
  /\ [][/\ pc \in {"validate", "handler"} =>
             pc' \in {pc, "handler", "ocr", "ai", "done", "closed", "crashed"}
        /\ (pc = "handler" /\ pc' = "validate") => FALSE
        /\ pc = "ocr" => pc' \in {"ocr", "ai", "done", "closed", "crashed"}
        /\ pc = "ai" => pc' \in {"ai", "done", "closed", "crashed"}
        /\ (pc = "done" /\ pc' \in {"validate", "handler", "ocr", "ai"}) => FALSE
        /\ (pc /= "ocr" /\ pc' = "ocr") =>
             /\ pc = "handler"
             /\ Normalized'
             /\ analysis' = NoOutcome /\ aiSent' = 0 /\ res' = NoResponse
        /\ (pc /= "ai" /\ pc' = "ai") =>
             /\ pc \in {"handler", "ocr"}
             /\ Normalized'
             /\ \A n \in DOMAIN ocr : ocr[n].st = "done"
             /\ ocr' = <<>>
             /\ aiSent = 0 /\ aiSent' = 1
             /\ analysis' = NoOutcome /\ res' = NoResponse
        /\ (analysis' /= analysis /\ analysis' /= NoOutcome) =>
             /\ analysis = NoOutcome
             /\ pc \in {"handler", "ocr", "ai"}
             /\ \A n \in DOMAIN ocr : ocr[n].st = "done"
             /\ ocr' = <<>>
             /\ aiSent' = 1 => (pc = "ai" /\ reply' \in Replies)
        /\ (res' /= res /\ res' /= NoResponse) =>
             /\ res = NoResponse
             /\ pc' = "done"
             /\ res'.status = 200 => analysis'.k = "return"
             /\ res'.status /= 200 => pc \in {"upload", "validate", "handler"}]_vars

\* A request with an attachment went through the extraction and one
\* request to the external model, and was answered 200 with what the
\* model returned.
C24_Witness ==
  /\ Answered
  /\ res.status = 200
  /\ Len(filesToProcess(req.files)) = 1
  /\ ocrText = S1("TDS 5")
  /\ aiSent = 1
  /\ reply.kind = "response"
  /\ res.body = analysis.v
  /\ res.body /= FallbackResult

\* C25, as stated: an analyze call sends at most one request to the
\* external model, that request carries a timeout, and when it fails or
\* times out the call sends nothing more and returns the fallback.
C25_OneRequestWithTimeout ==
  /\ aiSent \in {0, 1}
  /\ pc = "ai" => (aiSent = 1 /\ requestTimeout(impl) > 0)
  /\ (Analyzed /\ aiSent = 1 /\ reply.kind = "error") =>
       analysis = Return(FallbackResult, 1)

\* An attachment of at most 5MB whose MIME type is application/pdf,
\* image/png or image/jpeg.
Acceptable(file) ==
  /\ file.size <= 5 * 1024 * 1024
  /\ file.mimetype \in {"application/pdf", "image/png", "image/jpeg"}

\* C26, as stated: a request goes past the upload middleware only if
\* each of its attachments is at most 5MB and of type application/pdf,
\* image/png or image/jpeg; a request with any other attachment is
\* answered 400 without normalization, OCR or AI analysis.
C26_OnlyListedAttachmentsPass ==
  /\ pc \in {"validate", "handler", "ocr", "ai"} =>
       \A n \in DOMAIN req.files : Acceptable(req.files[n])
  /\ (pc = "done" /\ \E n \in DOMAIN req.files : ~Acceptable(req.files[n])) =>
       /\ res.status = 400
       /\ ~Normalized
       /\ ocr = <<>> /\ ocrText = EmptyStr
       /\ aiSent = 0 /\ analysis = NoOutcome

\* C27, as stated: the riskLevel of every body sent with HTTP 200 is
\* LOW, MEDIUM or HIGH; CRITICAL is never returned.
C27_RiskLevelIsLowMediumHigh ==
  res.status = 200 =>
    Get(res.body, K("riskLevel")) \in {S1("LOW"), S1("MEDIUM"), S1("HIGH")}

\* C28, as stated: whatever requests arrive from whatever addresses, the
\* store of the rate limiter never holds more entries than the bound
\* its sweep keeps: the threshold that triggers the sweep and the entry
\* of the request at hand.
C28_StoreIsBounded ==
  Cardinality(DOMAIN store) <= SWEEP_THRESHOLD + 1

\* C29: in the extraction of one file, a submit answered without an
\* operation-location header returns '' and no poll is sent; while the
\* client polls, a poll that finds 'succeeded' returns the provider's
\* content (or '' when there is none), one that finds 'failed' returns
\* '', and one that finds a pending status counts one attempt and
\* leaves the loop only when the budget is spent, with ''; every step
\* of an extraction is one of these answers to a submit or to a poll,
\* and an extraction that has returned takes no further step.
C29_FirstTerminalStatusDecides ==
  /\ [](\A n \in DOMAIN ocr :
          /\ ocr[n].st = "submit" =>
               extractTextSubmit("noheader") =
                 Extraction("done", 0, <<>>, "No operation-location header in response")
          /\ ocr[n].st = "poll" =>
               \A r \in PollReplies :
                 \A y \in {extractTextPoll(impl, ocr[n], r)} :
                   /\ r.kind = "succeeded" =>
                        /\ y.st = "done"
                        /\ y.text = IF r.content.t = "string" THEN r.content.v ELSE <<>>
                   /\ r.kind = "failed" => (y.st = "done" /\ y.text = <<>>)
                   /\ r.kind = "running" =>
                        /\ y.text = <<>>
                        /\ IF ocr[n].attempts + 1 < 10
                           THEN y.st = "poll" /\ y.attempts = ocr[n].attempts + 1
                           ELSE y.st = "done")
  /\ [][\A n \in 1..MaxFiles :
          ExtractionStep(n) =>
            \/ /\ ocr[n].st = "submit"
               /\ \E r \in SubmitReplies : ocr'[n] = extractTextSubmit(r)
               /\ ocr'[n].st = "poll" => ocr'[n].attempts = 0
               /\ ocr'[n].st = "done" => ocr'[n].text = <<>>
            \/ /\ ocr[n].st = "poll"
               /\ \E r \in PollReplies : ocr'[n] = extractTextPoll(impl, ocr[n], r)]_vars

\* The extraction of a single file has returned the content that a poll
\* found with status 'succeeded'.
C29_Witness ==
  /\ pc = "returned"
  /\ Len(ocr) = 1
  /\ ocr[1] = Extraction("done", 0, <<"TDS 5">>, "")
  /\ ocrText = S1("TDS 5")

\* C30: when the prompt cannot be built (the answers do not serialize,
\* or the text is not a string), the analyze call of a configured AI
\* client sends no request to the external model and returns the
\* fallback result.
C30_NoPromptNoRequest ==
  (/\ pc = "analyzed"
   /\ \/ arg.v[1] \in UnserializableAnswers
      \/ arg.v[2].t = "number") =>
    /\ aiSent = 0
    /\ analysis = Return(FallbackResult, 0)

\* A configured client was called with answers holding a BigInt, and
\* returned the fallback although the external model would have given a
\* valid LOW result.
C30_Witness ==
  /\ pc = "analyzed"
  /\ arg.v[1] = Obj(K("income") :> BigInt(1))
  /\ arg.v[2] = S1("TDS 5")
  /\ reply = ModelResponse(Str(LowText))
  /\ aiSent = 0
  /\ analysis.v = FallbackResult

\* C31: when the process starts, isConfigured() of the OCR client is
\* true exactly when the endpoint and the key are both set in the
\* environment, and no step changes what it returns: neither a step of
\* an extraction nor a later change of the environment.
C31_ConfiguredOnceForGood ==
  /\ ocrIsConfigured(ocrService) <=>
       (/\ env.AZURE_DOCUMENT_INTELLIGENCE_ENDPOINT /= ""
        /\ env.AZURE_DOCUMENT_INTELLIGENCE_KEY /= "")
  /\ [][ocrIsConfigured(ocrService)' <=> ocrIsConfigured(ocrService)]_vars

\* The endpoint and the key were removed from the environment after the
\* start, and the client, still configured, has extracted a text.
C31_Witness ==
  /\ pc = "returned"
  /\ ocrIsConfigured(ocrService)
  /\ env.AZURE_DOCUMENT_INTELLIGENCE_ENDPOINT = ""
  /\ env.AZURE_DOCUMENT_INTELLIGENCE_KEY = ""
  /\ ocrText = S1("TDS 5")

\* C32: a request of an address that has no window open (no entry, or
\* one whose reset time has passed) opens a window: it is passed on and
\* counted as the first, the window ending WINDOW_MS later.  A request
\* within the open window is counted and leaves the reset time as it is;
\* it is passed on while the window has counted at most MAX_REQUESTS
\* requests, and otherwise answered 429 and not passed on.
C32_LimitPerWindow ==
  [][store' /= store =>
       \A ip \in {arg'.v} :
         /\ ip \in DOMAIN store'
         /\ IF ip \in DOMAIN store /\ store[ip].resetTime >= now
            THEN /\ store'[ip] = Entry(store[ip].count + 1, store[ip].resetTime)
                 /\ IF store[ip].count >= MAX_REQUESTS
                    THEN /\ ret' = Bool(FALSE)
                         /\ res'.status = 429
                         /\ Get(res'.body, K("error")) =
                              S1("Too many requests. Please try again later.")
                    ELSE ret' = Bool(TRUE) /\ res' = NoResponse
            ELSE /\ store'[ip] = Entry(1, now + WINDOW_MS)
                 /\ ret' = Bool(TRUE)
                 /\ res' = NoResponse]_vars

\* The request that came one over the limit, at the very reset time of
\* its window, was answered 429 and not passed on.
C32_Witness ==
  /\ pc = "rateLimit"
  /\ arg.t = "string"
  /\ arg.v \in DOMAIN store
  /\ store[arg.v].count = MAX_REQUESTS + 1
  /\ store[arg.v].resetTime = now
  /\ res.status = 429
  /\ ret = Bool(FALSE)

OwnResponse ==
  IF req.ctype = "multipart/form-data" /\ uploadError(req.files, 1) /= NoError
  THEN handleUploadError(uploadError(req.files, 1))
  ELSE IF impl = "js"
  THEN Let(answersFromBodyJS(req.body), LAMBDA a :
       IF ~validateAnswersJS(a).valid
       THEN errorHandlerJS(createError(validateAnswersJS(a).error, 400))
       ELSE sendResultJS(analyzeCall(a, ocrText, reply)))
  ELSE Let(validateAnswersTS(req.body), LAMBDA msgs :
       IF Len(msgs) > 0
       THEN errorHandlerTS(createError(JoinMessages(msgs), 400), env.NODE_ENV)
       ELSE Let(parseAnswersTS(Get(req.body, K("answers"))), LAMBDA parsed :
            IF ~parsed.ok
            THEN errorHandlerTS(createError(<<"Invalid JSON format in answers field">>, 400),
                                env.NODE_ENV)
            ELSE sendResultTS(analyzeCall(parsed.val, ocrText, reply))))

\* The request found its address over the limit of the rate limiter.
RateLimited ==
  /\ impl = "ts"
  /\ ClientAddress \in DOMAIN store
  /\ store[ClientAddress].count > MAX_REQUESTS

\* Nothing of an earlier request is left for the request that starts.
NothingLeftOver ==
  /\ answers = Undefined
  /\ ocr = <<>>
  /\ ocrText = EmptyStr
  /\ aiSent = 0
  /\ reply = NoReply
  /\ analysis = NoOutcome
  /\ err = NoError

C35_EveryRequestIsAnswered ==
  (pc \in {"upload", "validate", "handler", "ocr", "ai"}) ~> (pc = "done")

\* C36: each request is answered at most once.  A step that sends a
\* response (upload error callback, error handler, result of the
\* analysis) finds none sent yet for the request and ends the handling of
\* the request; once a response is sent it stays as it is until the next
\* request is received or the process ends.
C36_AnsweredAtMostOnce ==
  [][res' /= res =>
       IF res = NoResponse
       THEN pc' = "done"
       ELSE res' = NoResponse /\ pc' \in {"upload", "closed", "crashed"}]_vars

\* a request answered by the error handler after the upload went through
C36_Witness ==
  /\ pc = "done"
  /\ req.ctype = "multipart/form-data"
  /\ err /= NoError
  /\ res = (IF impl = "js" THEN errorHandlerJS(err)
            ELSE errorHandlerTS(err, env.NODE_ENV))
  /\ res /= handleUploadError(err)

\* C37: a call of rateLimit removes an entry of another client exactly
\* when the store holds more than SWEEP_THRESHOLD entries and the
\* entry's reset time lies before the current time; every other entry of
\* another client keeps its count and its reset time, and no entry is
\* added but the caller's.
C37_SweepRemovesExpiredOnly ==
  [][(pc = "rateLimit" /\ store' /= store) =>
       /\ DOMAIN store' \subseteq DOMAIN store \cup {arg'.v}
       /\ \A k \in DOMAIN store \ {arg'.v} :
            IF Cardinality(DOMAIN store) > SWEEP_THRESHOLD
               /\ store[k].resetTime < now
            THEN k \notin DOMAIN store'
            ELSE k \in DOMAIN store' /\ store'[k] = store[k]]_vars

\* a store over the threshold with an expired entry, which the sweep
\* removes, and an entry with an open window and several requests
\* counted, which the sweep keeps as it is
C37_Witness ==
  /\ pc = "rateLimit"
  /\ Cardinality(DOMAIN store) > SWEEP_THRESHOLD
  /\ \E k, a \in DOMAIN store :
       /\ store[k].resetTime < now
       /\ k \notin DOMAIN sweep(store, now)
       /\ ~(store[a].resetTime < now)
       /\ store[a].count > 1
       /\ a \in DOMAIN sweep(store, now)
       /\ sweep(store, now)[a] = store[a]

\* C38: the records of the history carry the ids 1..n in insertion
\* order, no call removes or changes a stored record, and getAllAnalyses
\* returns all the records in that order.
C38_HistoryIsAppendOnly ==
  /\ [](/\ \A i \in 1..Len(records) : Get(records[i], K("id")) = Num(i)
        /\ pc = "getAllAnalyses" => ret = Arr(records))
  /\ [][/\ Len(records') >= Len(records)
        /\ SubSeq(records', 1, Len(records)) = records]_vars

\* getAllAnalyses has returned several records, saved at different times
C38_Witness ==
  /\ pc = "getAllAnalyses"
  /\ Len(records) >= 2
  /\ ret.v = records
  /\ Get(records[1], K("createdAt")) /= Get(records[2], K("createdAt"))


====
